---- MODULE Spec2Model ----
(***************************************************************************)
(* TrustCotaSys: the quotation lifecycle of server/routes.ts over the      *)
(* relational storage of server/storage.ts (DatabaseStorage), behind the   *)
(* role gate of server/middleware/rbac.ts.                                 *)
(*                                                                         *)
(* A table is a sequence of rows; the id of a row is its index, so that    *)
(* ids are unique and follow the order of insertion.  A nullable column    *)
(* holds <<>> (NULL) or <<v>>.  A string that the code builds, compares or *)
(* parses (request and order numbers) is a sequence of one-character       *)
(* strings.  Each action is one HTTP handler run to completion.            *)
(***************************************************************************)
EXTENDS Integers, Sequences, FiniteSets, TLC

VARIABLES
    users,               \* table users: id -> [role, isActive]
    suppliers,           \* table suppliers
    quotationRequests,   \* table quotation_requests
    supplierQuotations,  \* table supplier_quotations
    purchaseOrders,      \* table purchase_orders
    auditLogs,           \* table audit_logs
    aiAnalyses,          \* table ai_analyses
    outbox,              \* e-mails handed to the mail transport
    today,               \* the wall clock, in days since the epoch of the model
    res,                 \* the last HTTP exchange: route, caller, target, body, status
    calls,               \* the handlers suspended at an await, when handlers interleave
    mem                  \* the maps of the in-memory storage, and its last response

vars == <<users, suppliers, quotationRequests, supplierQuotations,
          purchaseOrders, auditLogs, aiAnalyses, outbox, today, res, calls, mem>>

store == <<users, suppliers, quotationRequests, supplierQuotations,
           purchaseOrders, auditLogs, aiAnalyses>>

----------------------------------------------------------------------------
(* Bounds of the model *)

MaxRequests == 1
MaxQuotations == 2
MaxOrders == 1
MaxSuppliers == 2
MaxAudit == 5
MaxDay == 1
MaxAuthAudit == 4
MaxSeqNew == 3
MaxRows == 3
MaxUploads == 1
MaxProcesses == 2
MaxMemAudit == 6

----------------------------------------------------------------------------
(* Strings *)

Alphabet == <<"-", "0", "1", "2", "3", "4", "5", "6", "7", "8", "9",
              "E", "O", "P", "Q", "R">>

CharCode(c) == CHOOSE i \in 1..Len(Alphabet) : Alphabet[i] = c

DigitChars == <<"0", "1", "2", "3", "4", "5", "6", "7", "8", "9">>

IsDigit(c) == \E i \in 1..10 : DigitChars[i] = c

DigitValue(c) == (CHOOSE i \in 1..10 : DigitChars[i] = c) - 1

RECURSIVE toString(_)
toString(n) ==
    IF n < 10 THEN <<DigitChars[n + 1]>>
    ELSE toString(n \div 10) \o <<DigitChars[(n % 10) + 1]>>

RECURSIVE padStart(_, _, _)
padStart(s, width, c) ==
    IF Len(s) >= width THEN s ELSE padStart(<<c>> \o s, width, c)

RECURSIVE ParseDigits(_, _, _)
ParseDigits(s, i, acc) ==
    IF i > Len(s) \/ ~IsDigit(s[i]) THEN acc
    ELSE ParseDigits(s, i + 1, 10 * acc + DigitValue(s[i]))

\* parseInt: the leading decimal digits; <<>> stands for NaN
parseInt(s) ==
    IF Len(s) = 0 \/ ~IsDigit(s[1]) THEN <<>> ELSE <<ParseDigits(s, 1, 0)>>

RECURSIVE SplitFrom(_, _, _, _)
SplitFrom(s, sep, i, cur) ==
    IF i > Len(s) THEN <<cur>>
    ELSE IF s[i] = sep THEN <<cur>> \o SplitFrom(s, sep, i + 1, <<>>)
    ELSE SplitFrom(s, sep, i + 1, Append(cur, s[i]))

split(s, sep) == SplitFrom(s, sep, 1, <<>>)

\* SQL: s LIKE 'prefix%'
like(s, prefix) ==
    /\ Len(s) >= Len(prefix)
    /\ \A i \in 1..Len(prefix) : s[i] = prefix[i]

RECURSIVE StrLessFrom(_, _, _)
StrLessFrom(a, b, i) ==
    IF i > Len(a) THEN i <= Len(b)
    ELSE IF i > Len(b) THEN FALSE
    ELSE IF a[i] = b[i] THEN StrLessFrom(a, b, i + 1)
    ELSE CharCode(a[i]) < CharCode(b[i])

\* the order of ORDER BY on a varchar column
StrLess(a, b) == StrLessFrom(a, b, 1)

\* String.prototype.trim, for the blank that spreadsheets cells carry
RECURSIVE trimStart(_)
trimStart(s) == IF s # <<>> /\ Head(s) = " " THEN trimStart(Tail(s)) ELSE s

RECURSIVE trimEnd(_)
trimEnd(s) ==
    IF s # <<>> /\ s[Len(s)] = " " THEN trimEnd(SubSeq(s, 1, Len(s) - 1)) ELSE s

trim(s) == trimEnd(trimStart(s))

\* String.prototype.includes
includes(s, sub) ==
    \E i \in 0..(Len(s) - Len(sub)) : SubSeq(s, i + 1, i + Len(sub)) = sub

LowerCase == <<"a", "b", "c", "d", "e", "f", "g", "h", "i", "j", "k", "l", "m",
               "n", "o", "p", "q", "r", "s", "t", "u", "v", "w", "x", "y", "z">>

UpperCase == <<"A", "B", "C", "D", "E", "F", "G", "H", "I", "J", "K", "L", "M",
               "N", "O", "P", "Q", "R", "S", "T", "U", "V", "W", "X", "Y", "Z">>

\* String.prototype.toUpperCase
toUpperCase(s) ==
    [i \in 1..Len(s) |->
        IF \E k \in 1..Len(LowerCase) : LowerCase[k] = s[i]
        THEN UpperCase[CHOOSE k \in 1..Len(LowerCase) : LowerCase[k] = s[i]]
        ELSE s[i]]

\* replace(/[^\d.,]/g, ''): only digits, dots and commas stay
keepNumeric(s) == SelectSeq(s, LAMBDA c : IsDigit(c) \/ c = "." \/ c = ",")

\* replace(',', '.'): the first comma becomes a dot
RECURSIVE commaToDot(_)
commaToDot(s) ==
    IF s = <<>> THEN s
    ELSE IF Head(s) = "," THEN <<".">> \o Tail(s)
    ELSE <<Head(s)>> \o commaToDot(Tail(s))

\* the digits at the start of a string
RECURSIVE LeadingDigits(_)
LeadingDigits(s) ==
    IF s # <<>> /\ IsDigit(Head(s)) THEN <<Head(s)>> \o LeadingDigits(Tail(s)) ELSE <<>>

\* a decimal number: its sign, the digits of its integer part without
\* leading zeros, and the digits of its fraction
RECURSIVE StripZeros(_)
StripZeros(digits) ==
    IF digits # <<>> /\ Head(digits) = "0" THEN StripZeros(Tail(digits)) ELSE digits

Number(neg, whole, frac) == [neg |-> neg, whole |-> StripZeros(whole), frac |-> frac]

\* parseFloat for decimal notation: blanks, a sign, digits, a dot, digits;
\* <<>> stands for NaN
parseFloat(s) ==
    LET t == trimStart(s)
        signed == t # <<>> /\ Head(t) \in {"-", "+"}
        body == IF signed THEN Tail(t) ELSE t
        whole == LeadingDigits(body)
        rest == SubSeq(body, Len(whole) + 1, Len(body))
        frac == IF rest # <<>> /\ Head(rest) = "." THEN LeadingDigits(Tail(rest)) ELSE <<>>
    IN  IF whole = <<>> /\ frac = <<>> THEN <<>>
        ELSE <<Number(signed /\ Head(t) = "-", whole, frac)>>

IsZero(x) == x.whole = <<>> /\ \A i \in 1..Len(x.frac) : x.frac[i] = "0"

\* x > 0
IsPositive(x) == ~x.neg /\ ~IsZero(x)

\* digit strings of non-negative numbers: a < b
DigitsLess(a, b) == Len(a) < Len(b) \/ (Len(a) = Len(b) /\ StrLess(a, b))

\* fractions compare digit by digit once padded to the same length
RECURSIVE padEnd(_, _, _)
padEnd(s, width, c) == IF Len(s) >= width THEN s ELSE padEnd(s \o <<c>>, width, c)

\* x <= y
LessOrEqual(x, y) ==
    LET width == IF Len(x.frac) > Len(y.frac) THEN Len(x.frac) ELSE Len(y.frac)
        xf == padEnd(x.frac, width, "0")
        yf == padEnd(y.frac, width, "0")
        magnitudeLE(a, af, b, bf) ==
            DigitsLess(a, b) \/ (a = b /\ (af = bf \/ StrLess(af, bf)))
    IN  IF IsZero(x) /\ IsZero(y) THEN TRUE
        ELSE IF x.neg /\ ~y.neg THEN TRUE
        ELSE IF ~x.neg /\ y.neg THEN FALSE
        ELSE IF x.neg THEN magnitudeLE(y.whole, yf, x.whole, xf)
        ELSE magnitudeLE(x.whole, xf, y.whole, yf)

\* the digit string of the next integer
RECURSIVE Increment(_)
Increment(digits) ==
    IF digits = <<>> THEN <<"1">>
    ELSE LET front == SubSeq(digits, 1, Len(digits) - 1)
             last == digits[Len(digits)]
         IN  IF last = "9" THEN Increment(front) \o <<"0">>
             ELSE front \o <<DigitChars[DigitValue(last) + 2]>>

\* the value a decimal(precision, scale) column stores: rounded half away
\* from zero to `scale` digits of fraction
toDecimal(x, scale) ==
    LET kept == SubSeq(padEnd(x.frac, scale, "0"), 1, scale)
        up == Len(x.frac) > scale /\ DigitValue(x.frac[scale + 1]) >= 5
        joined == x.whole \o kept
        digits == IF up THEN Increment(joined) ELSE joined
    IN  Number(x.neg, SubSeq(digits, 1, Len(digits) - scale),
               SubSeq(digits, Len(digits) - scale + 1, Len(digits)))

\* numeric field overflow: the rounded value needs more integer digits than
\* the column has
Overflows(x, precision, scale) == Len(toDecimal(x, scale).whole) > precision - scale

----------------------------------------------------------------------------
(* The clock *)

\* the model's clock starts on 31 December 2026
DateOf(day) ==
    IF day = 0 THEN [year |-> 2026, month |-> 12]
    ELSE [year |-> 2027, month |-> 1]

MsPerDay == 24 * 60 * 60 * 1000

\* Date.now()
DateNow == today * MsPerDay

\* today.getFullYear().toString() + (today.getMonth() + 1).toString().padStart(2, '0')
yearMonth ==
    toString(DateOf(today).year) \o padStart(toString(DateOf(today).month), 2, "0")

----------------------------------------------------------------------------
(* Middleware: server/replitAuth.ts (session) and server/middleware/rbac.ts *)

\* the value of req.user?.claims?.sub of a request without a session
NoSession == ""

UserRoles == {"admin", "requisitante", "cotador", "aprovador"}

\* isAuthenticated: a request without a valid session is answered 401
isAuthenticated(actor) == actor # NoSession

\* storage.getUser(id): <<>> when no row has that id
getUserIn(table, id) == IF id \in DOMAIN table THEN <<table[id]>> ELSE <<>>

getUser(id) == getUserIn(users, id)

\* requireRole(roles): 0 when next() is called, else the status answered
\* a gate that does not look at is_active
requireRoleIgnoringActive(table, roles, actor) ==
    IF actor = NoSession THEN 401
    ELSE LET user == getUserIn(table, actor) IN
         IF user = <<>> THEN 401
         ELSE IF user[1].role = <<>> \/ user[1].role[1] \notin roles THEN 403
         ELSE 0

requireRoleIn(table, roles, actor) ==
    IF actor = NoSession THEN 401
    ELSE LET user == getUserIn(table, actor) IN
         IF user = <<>> THEN 401
         ELSE IF user[1].isActive # <<TRUE>> THEN 403
         ELSE IF user[1].role = <<>> \/ user[1].role[1] \notin roles THEN 403
         ELSE 0

requireRole(roles, actor) == requireRoleIn(users, roles, actor)

AdminRoles == {"admin"}
ApproverRoles == {"admin", "aprovador"}
QuotationProcessorRoles == {"admin", "cotador"}
RequesterRoles == {"admin", "requisitante", "cotador", "aprovador"}

requireAdmin(actor) == requireRole(AdminRoles, actor)
requireApprover(actor) == requireRole(ApproverRoles, actor)
requireQuotationProcessor(actor) == requireRole(QuotationProcessorRoles, actor)
requireRequester(actor) == requireRole(RequesterRoles, actor)

\* req.params.userId || req.body.requesterId: an absent field is <<>>
resourceUserId(params, body) == IF params # <<>> THEN params ELSE body

\* requireOwnershipOrRole(roles): 0 when next() is called, else the status
\* answered.  userId is undefined without a session, and so is the resource's
\* user id when the request names none: undefined === undefined.  The user
\* row is read without looking at is_active
requireOwnershipOrRole(roles, actor, params, body) ==
    LET userId == IF actor = NoSession THEN <<>> ELSE <<actor>>
        user == IF actor = NoSession THEN <<>> ELSE getUser(actor)
    IN  IF userId = resourceUserId(params, body) THEN 0
        ELSE IF user = <<>> \/ user[1].role = <<>> \/ user[1].role[1] \notin roles
             THEN 403
        ELSE 0

\* app.<verb>(path, isAuthenticated, gate, handler): the middleware chain
Chain(actor, gate) == IF ~isAuthenticated(actor) THEN 401 ELSE gate

----------------------------------------------------------------------------
(* Storage: DatabaseStorage over the schema of shared/schema.ts *)

QuotationStatus == {"rascunho", "em_cotacao", "aguardando_aprovacao",
                    "aprovado", "rejeitado", "cancelado"}

SupplierStatus == {"ativo", "inativo", "pendente", "bloqueado"}

Ids(table) == 1..Len(table)

getSupplier(id) ==
    IF id \in Ids(suppliers) /\ ~suppliers[id].deleted THEN <<suppliers[id]>> ELSE <<>>

\* getSuppliers(): ids in ORDER BY created_at DESC, i.e. newest first
RECURSIVE NewestFirst(_, _)
NewestFirst(table, i) ==
    IF i = 0 THEN <<>>
    ELSE IF table[i].deleted THEN NewestFirst(table, i - 1)
    ELSE <<i>> \o NewestFirst(table, i - 1)

getSuppliers == NewestFirst(suppliers, Len(suppliers))

getQuotationRequest(id) ==
    IF id \in Ids(quotationRequests) THEN <<quotationRequests[id]>> ELSE <<>>

\* the row with the greatest number among the ids in lo..hi that match
\* the prefix: ORDER BY number DESC LIMIT 1; 0 when no row matches
RECURSIVE LastNumbered(_, _, _, _)
LastNumbered(numbers, prefix, lo, hi) ==
    IF lo > hi THEN 0
    ELSE IF lo = hi THEN (IF like(numbers[lo], prefix) THEN lo ELSE 0)
    ELSE LET mid == (lo + hi) \div 2
             a == LastNumbered(numbers, prefix, lo, mid)
             b == LastNumbered(numbers, prefix, mid + 1, hi)
         IN  IF a = 0 THEN b
             ELSE IF b = 0 THEN a
             ELSE IF StrLess(numbers[a], numbers[b]) THEN b ELSE a

\* the number generation shared by createQuotationRequest and createPurchaseOrder
NextNumber(numbers, tag) ==
    LET prefix == tag \o <<"-">> \o yearMonth
        last == LastNumbered(numbers, prefix, 1, Len(numbers))
        lastSequence == IF last = 0 THEN <<>> ELSE parseInt(split(numbers[last], "-")[3])
        sequence == IF last = 0 THEN 1 ELSE lastSequence[1] + 1
    IN  prefix \o <<"-">> \o padStart(toString(sequence), 3, "0")

RequestNumbersIn(table) == [i \in Ids(table) |-> table[i].requestNumber]

RequestNumbers == RequestNumbersIn(quotationRequests)

\* total_budget: decimal("total_budget", { precision: 12, scale: 2 })
TotalBudgetPrecision == 12

TotalBudgetScale == 2

OrderNumbers == [i \in Ids(purchaseOrders) |-> purchaseOrders[i].orderNumber]

\* an INSERT into a table that has no unique constraint on the number
insertUnchecked(table, request, requestNumber) ==
    [ok |-> TRUE,
     id |-> Len(table) + 1,
     table |-> Append(table, [requestNumber |-> requestNumber,
                              requesterId |-> request.requesterId,
                              status |-> "rascunho",
                              totalBudget |-> <<>>,
                              approvedAmount |-> <<>>,
                              approverId |-> <<>>,
                              approvedAt |-> <<>>,
                              notes |-> <<>>])]

\* the INSERT of createQuotationRequest: ok = FALSE when it violates the
\* unique constraint on request_number or the foreign key of requester_id,
\* or when total_budget overflows its column
insertQuotationRequest(table, request, requestNumber) ==
    LET given == IF "totalBudget" \in DOMAIN request THEN request.totalBudget ELSE <<>>
        row == [requestNumber |-> requestNumber,
                requesterId |-> request.requesterId,
                status |-> "rascunho",
                totalBudget |-> IF given = <<>> THEN <<>>
                                ELSE <<toDecimal(given[1], TotalBudgetScale)>>,
                approvedAmount |-> <<>>,
                approverId |-> <<>>,
                approvedAt |-> <<>>,
                notes |-> <<>>]
        ok == /\ \A i \in Ids(table) : table[i].requestNumber # requestNumber
              /\ getUser(request.requesterId) # <<>>
              /\ given # <<>> =>
                     ~Overflows(given[1], TotalBudgetPrecision, TotalBudgetScale)
    IN  [ok |-> ok,
         id |-> Len(table) + 1,
         table |-> IF ok THEN Append(table, row) ELSE table]

\* createQuotationRequest(request) over the rows of `table`: the latest
\* number is read, then the row is inserted under the next one
createQuotationRequestIn(table, request) ==
    insertQuotationRequest(table, request,
                           NextNumber(RequestNumbersIn(table), <<"R", "E", "Q">>))

createQuotationRequest(request) == createQuotationRequestIn(quotationRequests, request)

\* updateQuotationRequest(id, request): .set() writes the fields that are given
Merge(row, fields) ==
    [k \in DOMAIN row |-> IF k \in DOMAIN fields THEN fields[k] ELSE row[k]]

updateQuotationRequest(table, id, fields) ==
    IF id \in Ids(table) THEN [table EXCEPT ![id] = Merge(table[id], fields)] ELSE table

\* getSupplierQuotations(quotationRequestId): the ids of the request's rows
getSupplierQuotationsIn(table, quotationRequestId) ==
    {i \in Ids(table) : table[i].quotationRequestId = quotationRequestId}

getSupplierQuotations(quotationRequestId) ==
    getSupplierQuotationsIn(supplierQuotations, quotationRequestId)

getSupplierQuotation(id) ==
    IF id \in Ids(supplierQuotations) THEN <<supplierQuotations[id]>> ELSE <<>>

\* createSupplierQuotation(quotation) over the given tables: ok = FALSE when
\* a foreign key fails
createSupplierQuotationIn(table, supplierTable, quotation) ==
    LET ok == /\ getQuotationRequest(quotation.quotationRequestId) # <<>>
              /\ quotation.supplierId \in Ids(supplierTable)
              /\ ~supplierTable[quotation.supplierId].deleted
    IN  [ok |-> ok,
         id |-> Len(table) + 1,
         table |-> IF ok THEN Append(table, quotation) ELSE table]

createSupplierQuotation(quotation) ==
    createSupplierQuotationIn(supplierQuotations, suppliers, quotation)

\* an update that stores the new version of the row as a further row
insertVersion(table, id, fields) ==
    IF id \in Ids(table) THEN Append(table, Merge(table[id], fields)) ELSE table

\* an UPDATE that keeps at most one quotation of a request selected
updateExclusively(table, id, fields) ==
    [i \in Ids(table) |->
        IF i = id THEN Merge(table[i], fields)
        ELSE IF /\ id \in Ids(table)
                /\ table[i].quotationRequestId = table[id].quotationRequestId
                /\ "isSelected" \in DOMAIN fields
        THEN Merge(table[i], [isSelected |-> FALSE])
        ELSE table[i]]

updateSupplierQuotation(table, id, fields) ==
    IF id \in Ids(table) THEN [table EXCEPT ![id] = Merge(table[id], fields)] ELSE table

\* the INSERT of createPurchaseOrder: ok = FALSE when it violates the
\* unique constraint on order_number
insertPurchaseOrder(table, order, orderNumber) ==
    LET row == [orderNumber |-> orderNumber,
                quotationRequestId |-> order.quotationRequestId,
                supplierId |-> order.supplierId,
                totalAmount |-> order.totalAmount,
                expectedDeliveryDate |-> order.expectedDeliveryDate,
                status |-> order.status,
                createdAt |-> DateNow]
        ok == \A i \in Ids(table) : table[i].orderNumber # orderNumber
    IN  [ok |-> ok,
         id |-> Len(table) + 1,
         orderNumber |-> orderNumber,
         table |-> IF ok THEN Append(table, row) ELSE table]

\* createPurchaseOrder(order): the latest number is read, then the row is
\* inserted under the next one
createPurchaseOrder(order) ==
    insertPurchaseOrder(purchaseOrders, order, NextNumber(OrderNumbers, <<"P", "O">>))

\* an audit log that starts over with every row
restartAuditLog(table, log) == <<log>>

\* an audit log that keeps only the latest row
overwriteAuditLog(table, log) ==
    IF table = <<>> THEN <<log>> ELSE [table EXCEPT ![Len(table)] = log]

\* createAuditLog(log): INSERT INTO audit_logs
createAuditLog(table, log) == Append(table, log)

AuditLog(userId, action, entityType, entityId, changes) ==
    [userId |-> userId, action |-> action, entityType |-> entityType,
     entityId |-> entityId, changes |-> changes]

----------------------------------------------------------------------------
(* Storage: MemStorage, the in-memory implementation that `storage` is when *)
(* no database is configured.  A map is the sequence of its values in       *)
(* insertion order, and the id of a value is its index.                     *)

\* new MemStorage(), before any request: no request, quotation or order
NoMem == [quotationRequests |-> <<>>, supplierQuotations |-> <<>>,
          auditLogs |-> <<>>, status |-> 0, json |-> <<>>]

\* MemStorage.getQuotationRequest(id)
memGetQuotationRequest(m, id) ==
    IF id \in Ids(m.quotationRequests) THEN <<m.quotationRequests[id]>> ELSE <<>>

\* MemStorage.createQuotationRequest(request): the number is REQ-<Date.now()>
memCreateQuotationRequest(m, request) ==
    [m EXCEPT !.quotationRequests =
        Append(@, [requestNumber |-> <<"R", "E", "Q", "-">> \o toString(DateNow),
                   requesterId |-> request.requesterId,
                   status |-> "rascunho",
                   totalBudget |-> <<>>,
                   approvedAmount |-> <<>>,
                   approverId |-> <<>>,
                   approvedAt |-> <<>>,
                   notes |-> <<>>])]

\* MemStorage.updateQuotationRequest(id, request): throws on a missing id
memUpdateQuotationRequest(m, id, fields) ==
    [ok |-> id \in Ids(m.quotationRequests),
     m |-> [m EXCEPT !.quotationRequests =
                updateQuotationRequest(m.quotationRequests, id, fields)]]

\* MemStorage.getSupplierQuotations(requestId): return []
memGetSupplierQuotations(m, requestId) == {}

\* MemStorage.getSupplierQuotation(id)
memGetSupplierQuotation(m, id) ==
    IF id \in Ids(m.supplierQuotations) THEN <<m.supplierQuotations[id]>> ELSE <<>>

\* MemStorage.createSupplierQuotation(quotation): a map has no foreign keys
memCreateSupplierQuotation(m, quotation) ==
    [m EXCEPT !.supplierQuotations = Append(@, quotation)]

\* MemStorage.updateSupplierQuotation(id, quotation), on a stored id
memUpdateSupplierQuotation(m, id, fields) ==
    [m EXCEPT !.supplierQuotations[id] = Merge(@, fields)]

\* MemStorage.getAuditLogs(entityId, entityType): return []
memGetAuditLogs(m) == <<>>

\* MemStorage.createAuditLog(log)
memCreateAuditLog(m, log) == [m EXCEPT !.auditLogs = Append(@, log)]

----------------------------------------------------------------------------
(* Route handlers of server/routes.ts.  A handler maps the stored state    *)
(* and its inputs to an outcome: the status answered, the fate of its      *)
(* best-effort side effect, and the contents of every table afterwards.    *)

\* the outcome of a handler that answers `status` and writes nothing
Keep(status) ==
    [status |-> status, side |-> "none",
     suppliers |-> suppliers,
     quotationRequests |-> quotationRequests,
     supplierQuotations |-> supplierQuotations,
     purchaseOrders |-> purchaseOrders,
     auditLogs |-> auditLogs,
     aiAnalyses |-> aiAnalyses,
     outbox |-> outbox,
     json |-> <<>>]

\* the audit row of a handler; the INSERT fails on the foreign key of user_id
\* when the caller has no row in users, and the handler's catch answers `status`
Audited(out, status, log) ==
    IF getUser(log.userId) = <<>> THEN [out EXCEPT !.status = status]
    ELSE [out EXCEPT !.auditLogs = createAuditLog(out.auditLogs, log)]

\* a side effect whose error reaches the handler's outer catch
Rethrow(failed, done, throws) ==
    IF throws THEN [failed EXCEPT !.side = "failed", !.status = 500]
    ELSE [done EXCEPT !.side = "done"]

\* try { side effect } catch (error) { console.error(...) }: `failed` is the
\* outcome when the side effect throws and `done` the outcome when it succeeds
TryCatch(failed, done, throws) ==
    IF throws THEN [failed EXCEPT !.side = "failed"] ELSE [done EXCEPT !.side = "done"]

\* POST /api/suppliers
PostSupplier(actor, body) ==
    LET gate == Chain(actor, requireAdmin(actor)) IN
    IF gate # 0 THEN Keep(gate)
    ELSE Audited([Keep(201) EXCEPT
                    !.suppliers = Append(suppliers, [status |-> body.status, deleted |-> FALSE])],
                 400,
                 AuditLog(actor, "create", "supplier", Len(suppliers) + 1, body))

\* PUT /api/suppliers/:id
PutSupplier(id, actor, body) ==
    LET gate == Chain(actor, requireAdmin(actor)) IN
    IF gate # 0 THEN Keep(gate)
    ELSE Audited([Keep(200) EXCEPT
                    !.suppliers = IF getSupplier(id) = <<>> THEN suppliers
                                  ELSE [suppliers EXCEPT ![id] = Merge(suppliers[id], body)]],
                 400,
                 AuditLog(actor, "update", "supplier", id, body))

\* DELETE /api/suppliers/:id; the DELETE fails on a foreign key when a
\* quotation or an order references the supplier
DeleteSupplier(id, actor) ==
    LET gate == Chain(actor, requireAdmin(actor))
        referenced ==
            \/ \E q \in Ids(supplierQuotations) : supplierQuotations[q].supplierId = id
            \/ \E o \in Ids(purchaseOrders) : purchaseOrders[o].supplierId = id
    IN
    IF gate # 0 THEN Keep(gate)
    ELSE IF referenced THEN Keep(500)
    ELSE Audited([Keep(204) EXCEPT
                    !.suppliers = IF getSupplier(id) = <<>> THEN suppliers
                                  ELSE [suppliers EXCEPT ![id].deleted = TRUE]],
                 500,
                 AuditLog(actor, "delete", "supplier", id, <<>>))

\* POST /api/quotation-requests
PostQuotationRequest(actor, body, aiFails) ==
    LET gate == Chain(actor, requireRequester(actor))
        validatedData == [requesterId |-> actor]
        request == createQuotationRequest(validatedData)
    IN
    IF gate # 0 THEN Keep(gate)
    ELSE IF ~request.ok THEN Keep(400)
    ELSE LET created == [Keep(201) EXCEPT
                 !.quotationRequests = request.table,
                 !.auditLogs = createAuditLog(auditLogs,
                     AuditLog(actor, "create", "quotation_request", request.id,
                              validatedData))]
             analysed == [created EXCEPT
                 !.aiAnalyses = Append(aiAnalyses, [type |-> "quotation_analysis",
                                                    entityType |-> "quotation_request",
                                                    entityId |-> request.id])]
         IN  TryCatch(created, analysed, aiFails)

\* PUT /api/quotation-requests/:id
PutQuotationRequest(id, actor, body) ==
    LET gate == Chain(actor, 0) IN
    IF gate # 0 THEN Keep(gate)
    ELSE Audited([Keep(200) EXCEPT
                    !.quotationRequests = updateQuotationRequest(quotationRequests, id, body)],
                 400,
                 AuditLog(actor, "update", "quotation_request", id, body))

\* POST /api/quotation-requests/:id/approve
Approve(id, actor, body, emailFails) ==
    LET gate == Chain(actor, requireApprover(actor))
        request == getQuotationRequest(id)
        delivered == request # <<>> /\ ~emailFails
    IN
    IF gate # 0 THEN Keep(gate)
    ELSE LET approved == [Keep(200) EXCEPT
                 !.quotationRequests = updateQuotationRequest(quotationRequests, id,
                     [status |-> "aprovado",
                      approverId |-> <<actor>>,
                      approvedAmount |-> body.approvedAmount,
                      approvedAt |-> <<DateNow>>]),
                 !.auditLogs = createAuditLog(auditLogs,
                     AuditLog(actor, "approve", "quotation_request", id,
                              [status |-> "aprovado",
                               approvedAmount |-> body.approvedAmount]))]
             sent(ok) == [approved EXCEPT
                 !.outbox = Append(outbox, [kind |-> "approval", requestId |-> id,
                                            to |-> <<>>, delivered |-> ok])]
         IN  TryCatch(sent(FALSE), sent(TRUE), ~delivered)

\* POST /api/quotation-requests/:id/reject
Reject(id, actor, body) ==
    LET gate == Chain(actor, requireApprover(actor)) IN
    IF gate # 0 THEN Keep(gate)
    ELSE [Keep(200) EXCEPT
            !.quotationRequests = updateQuotationRequest(quotationRequests, id,
                [status |-> "rejeitado",
                 approverId |-> <<actor>>,
                 notes |-> body.rejectionReason]),
            !.auditLogs = createAuditLog(auditLogs,
                AuditLog(actor, "reject", "quotation_request", id,
                         [status |-> "rejeitado", rejectionReason |-> body.rejectionReason]))]

\* allSuppliers.filter(s => s.status === 'ativo').slice(0, 5)
NotifyLimit == 5

ActiveSuppliers == SelectSeq(getSuppliers, LAMBDA i : suppliers[i].status = "ativo")

selectedSuppliers == SubSeq(ActiveSuppliers, 1,
                            IF Len(ActiveSuppliers) < NotifyLimit
                            THEN Len(ActiveSuppliers) ELSE NotifyLimit)

\* POST /api/quotation-requests/:id/supplier-quotations
PostSupplierQuotation(id, actor, body, emailFails) ==
    LET gate == Chain(actor, requireQuotationProcessor(actor))
        validatedData == [quotationRequestId |-> id,
                          supplierId |-> body.supplierId,
                          totalAmount |-> body.totalAmount,
                          deliveryTime |-> body.deliveryTime,
                          isSelected |-> body.isSelected]
        quotation == createSupplierQuotation(validatedData)
        request == getQuotationRequest(id)
        advanced == IF request # <<>> /\ request[1].status = "rascunho"
                    THEN updateQuotationRequest(quotationRequests, id,
                                                [status |-> "em_cotacao"])
                    ELSE quotationRequests
        allQuotations == getSupplierQuotationsIn(quotation.table, id)
        first == Cardinality(allQuotations) = 1 /\ request # <<>>
    IN
    IF gate # 0 THEN Keep(gate)
    ELSE IF ~quotation.ok THEN Keep(400)
    ELSE LET created == [Keep(201) EXCEPT
                 !.supplierQuotations = quotation.table,
                 !.auditLogs = createAuditLog(auditLogs,
                     AuditLog(actor, "create", "supplier_quotation", quotation.id,
                              validatedData)),
                 !.quotationRequests = advanced]
             sent(ok) == [created EXCEPT
                 !.outbox = Append(outbox, [kind |-> "quotation_request",
                                            requestId |-> id,
                                            to |-> selectedSuppliers,
                                            delivered |-> ok])]
         IN  IF first THEN TryCatch(sent(FALSE), sent(TRUE), emailFails) ELSE created

\* PUT /api/supplier-quotations/:id
PutSupplierQuotation(id, actor, body) ==
    LET gate == Chain(actor, requireQuotationProcessor(actor)) IN
    IF gate # 0 THEN Keep(gate)
    ELSE [Keep(200) EXCEPT
            !.supplierQuotations = updateSupplierQuotation(supplierQuotations, id, body),
            !.auditLogs = createAuditLog(auditLogs,
                AuditLog(actor, "update", "supplier_quotation", id, body))]

\* a select handler whose loop unselects nothing
UnselectNone(table, allQuotations, id) == table

\* the loop of the select handler: unselect all other quotations of the request
UnselectOthers(table, allQuotations, id) ==
    [i \in Ids(table) |->
        IF i \in allQuotations /\ i # id
        THEN Merge(table[i], [isSelected |-> FALSE])
        ELSE table[i]]

\* POST /api/supplier-quotations/:id/select
SelectSupplierQuotation(id, actor) ==
    LET gate == Chain(actor, requireQuotationProcessor(actor))
        quotation == getSupplierQuotation(id)
        allQuotations == getSupplierQuotations(quotation[1].quotationRequestId)
        unselected == UnselectOthers(supplierQuotations, allQuotations, id)
        selectedQuotation == updateSupplierQuotation(unselected, id, [isSelected |-> TRUE])
    IN
    IF gate # 0 THEN Keep(gate)
    ELSE IF quotation = <<>> THEN Keep(404)
    ELSE [Keep(200) EXCEPT
            !.supplierQuotations = selectedQuotation,
            !.quotationRequests = updateQuotationRequest(quotationRequests,
                quotation[1].quotationRequestId,
                [status |-> "aguardando_aprovacao",
                 totalBudget |-> <<quotation[1].totalAmount>>]),
            !.auditLogs = createAuditLog(auditLogs,
                AuditLog(actor, "select", "supplier_quotation", id, [isSelected |-> TRUE]))]

\* quotations.find(q => q.isSelected): the candidates; the SELECT has no
\* ORDER BY, so any selected row may come first
SelectedOf(quotationRequestId) ==
    {q \in getSupplierQuotations(quotationRequestId) : supplierQuotations[q].isSelected}

\* selectedQuotation.deliveryTime ? new Date(Date.now() + deliveryTime days) : null
expectedDeliveryDate(deliveryTime) ==
    IF deliveryTime # <<>> /\ deliveryTime[1] # 0
    THEN <<DateNow + deliveryTime[1] * MsPerDay>>
    ELSE <<>>

\* a guard that only asks for the request to exist
mustExistFirst(request) == request = <<>>

\* !request || request.status !== 'aprovado'
mustBeApprovedFirst(request) == request = <<>> \/ request[1].status # "aprovado"

\* POST /api/quotation-requests/:id/generate-purchase-order; `found` is the
\* row that find() returns
GeneratePurchaseOrder(id, actor, found) ==
    LET gate == Chain(actor, requireApprover(actor))
        request == getQuotationRequest(id)
        selectedQuotation == supplierQuotations[found]
        purchaseOrder == createPurchaseOrder(
            [quotationRequestId |-> id,
             supplierId |-> selectedQuotation.supplierId,
             totalAmount |-> selectedQuotation.totalAmount,
             expectedDeliveryDate |-> expectedDeliveryDate(selectedQuotation.deliveryTime),
             status |-> "pendente"])
    IN
    IF gate # 0 THEN Keep(gate)
    ELSE IF mustBeApprovedFirst(request) THEN Keep(400)
    ELSE IF SelectedOf(id) = {} THEN Keep(400)
    ELSE IF ~purchaseOrder.ok THEN Keep(500)
    ELSE [Keep(201) EXCEPT
            !.purchaseOrders = purchaseOrder.table,
            !.auditLogs = createAuditLog(auditLogs,
                AuditLog(actor, "create", "purchase_order", purchaseOrder.id,
                         [orderNumber |-> purchaseOrder.orderNumber,
                          supplierId |-> selectedQuotation.supplierId]))]

\* GET /api/quotation-requests/:id/supplier-quotations
ListSupplierQuotations(id, actor) ==
    LET gate == Chain(actor, requireQuotationProcessor(actor)) IN
    IF gate # 0 THEN Keep(gate)
    ELSE [Keep(200) EXCEPT !.json = <<getSupplierQuotations(id)>>]

\* getAuditLogs(): ORDER BY created_at DESC
getAuditLogs == [i \in Ids(auditLogs) |-> auditLogs[Len(auditLogs) + 1 - i]]

\* GET /api/audit-logs
ListAuditLogs(actor) ==
    LET gate == Chain(actor, requireApprover(actor)) IN
    IF gate # 0 THEN Keep(gate)
    ELSE [Keep(200) EXCEPT !.json = <<getAuditLogs>>]

----------------------------------------------------------------------------
(* The same route handlers when `storage` is the MemStorage m: the outcome *)
(* is m with the status answered and the body of a read.  The accounts are *)
(* those of the table users.                                                *)

MemKeep(m, status) == [m EXCEPT !.status = status, !.json = <<>>]

\* POST /api/quotation-requests
MemPostQuotationRequest(m, actor) ==
    LET gate == Chain(actor, requireRequester(actor))
        validatedData == [requesterId |-> actor]
        created == memCreateQuotationRequest(m, validatedData)
    IN
    IF gate # 0 THEN MemKeep(m, gate)
    ELSE MemKeep(memCreateAuditLog(created,
                    AuditLog(actor, "create", "quotation_request",
                             Len(created.quotationRequests), validatedData)),
                 201)

\* POST /api/quotation-requests/:id/supplier-quotations: allQuotations is
\* empty, so that no notification is sent
MemPostSupplierQuotation(m, id, actor, body) ==
    LET gate == Chain(actor, requireQuotationProcessor(actor))
        validatedData == [quotationRequestId |-> id,
                          supplierId |-> body.supplierId,
                          totalAmount |-> body.totalAmount,
                          deliveryTime |-> body.deliveryTime,
                          isSelected |-> body.isSelected]
        created == memCreateSupplierQuotation(m, validatedData)
        audited == memCreateAuditLog(created,
                       AuditLog(actor, "create", "supplier_quotation",
                                Len(created.supplierQuotations), validatedData))
        request == memGetQuotationRequest(audited, id)
        advanced == IF request # <<>> /\ request[1].status = "rascunho"
                    THEN memUpdateQuotationRequest(audited, id,
                                                   [status |-> "em_cotacao"]).m
                    ELSE audited
    IN
    IF gate # 0 THEN MemKeep(m, gate) ELSE MemKeep(advanced, 201)

\* POST /api/supplier-quotations/:id/select: allQuotations is empty, so that
\* no other quotation is unselected
MemSelectSupplierQuotation(m, id, actor) ==
    LET gate == Chain(actor, requireQuotationProcessor(actor))
        quotation == memGetSupplierQuotation(m, id)
        selectedQuotation == memUpdateSupplierQuotation(m, id, [isSelected |-> TRUE])
        updated == memUpdateQuotationRequest(selectedQuotation,
                       quotation[1].quotationRequestId,
                       [status |-> "aguardando_aprovacao",
                        totalBudget |-> <<quotation[1].totalAmount>>])
    IN
    IF gate # 0 THEN MemKeep(m, gate)
    ELSE IF quotation = <<>> THEN MemKeep(m, 404)
    ELSE IF ~updated.ok THEN MemKeep(selectedQuotation, 500)
    ELSE MemKeep(memCreateAuditLog(updated.m,
                    AuditLog(actor, "select", "supplier_quotation", id,
                             [isSelected |-> TRUE])),
                 200)

\* POST /api/quotation-requests/:id/approve
MemApprove(m, id, actor, body) ==
    LET gate == Chain(actor, requireApprover(actor))
        updated == memUpdateQuotationRequest(m, id,
                       [status |-> "aprovado",
                        approverId |-> <<actor>>,
                        approvedAmount |-> body.approvedAmount,
                        approvedAt |-> <<DateNow>>])
    IN
    IF gate # 0 THEN MemKeep(m, gate)
    ELSE IF ~updated.ok THEN MemKeep(m, 500)
    ELSE MemKeep(memCreateAuditLog(updated.m,
                    AuditLog(actor, "approve", "quotation_request", id,
                             [status |-> "aprovado",
                              approvedAmount |-> body.approvedAmount])),
                 200)

\* POST /api/quotation-requests/:id/generate-purchase-order: quotations is
\* empty, so that find() returns undefined
MemGeneratePurchaseOrder(m, id, actor) ==
    LET gate == Chain(actor, requireApprover(actor))
        request == memGetQuotationRequest(m, id)
        quotations == memGetSupplierQuotations(m, id)
    IN
    IF gate # 0 THEN MemKeep(m, gate)
    ELSE IF mustBeApprovedFirst(request) THEN MemKeep(m, 400)
    ELSE IF {q \in quotations : m.supplierQuotations[q].isSelected} = {}
         THEN MemKeep(m, 400)
    ELSE MemKeep(m, 201)

\* GET /api/quotation-requests/:id/supplier-quotations
MemListSupplierQuotations(m, id, actor) ==
    LET gate == Chain(actor, requireQuotationProcessor(actor)) IN
    IF gate # 0 THEN MemKeep(m, gate)
    ELSE [MemKeep(m, 200) EXCEPT !.json = <<memGetSupplierQuotations(m, id)>>]

\* GET /api/audit-logs
MemListAuditLogs(m, actor) ==
    LET gate == Chain(actor, requireApprover(actor)) IN
    IF gate # 0 THEN MemKeep(m, gate)
    ELSE [MemKeep(m, 200) EXCEPT !.json = <<memGetAuditLogs(m)>>]

----------------------------------------------------------------------------
(* Spreadsheet uploads.  A file is <<>> (no file sent) or <<jsonData>>,     *)
(* where jsonData is the sequence of rows the handler loops over: each row  *)
(* maps its column headers to cells.  A cell is undefined, a string or a    *)
(* number, as sheet_to_json delivers it.                                    *)

Undefined == [type |-> "undefined", text |-> <<>>, number |-> Number(FALSE, <<>>, <<>>)]

String(text) == [type |-> "string", text |-> text, number |-> Number(FALSE, <<>>, <<>>)]

NumberCell(x) == [type |-> "number", text |-> <<>>, number |-> x]

\* the truthiness of a cell: '' and 0 are falsy, and so is undefined
Truthy(cell) ==
    \/ cell.type = "string" /\ cell.text # <<>>
    \/ cell.type = "number" /\ ~IsZero(cell.number)

\* Number.prototype.toString for a decimal number
NumberToString(x) ==
    (IF x.neg /\ ~IsZero(x) THEN <<"-">> ELSE <<>>)
    \o (IF x.whole = <<>> THEN <<"0">> ELSE x.whole)
    \o (IF \A i \in 1..Len(x.frac) : x.frac[i] = "0" THEN <<>> ELSE <<".">> \o x.frac)

\* value.toString() of a cell that is not undefined
CellToString(cell) ==
    IF cell.type = "string" THEN cell.text ELSE NumberToString(cell.number)

\* getColumnValue(possibleNames): the first named column of the row that is
\* neither undefined nor ''
RECURSIVE getColumnValue(_, _)
getColumnValue(row, possibleNames) ==
    IF possibleNames = <<>> THEN Undefined
    ELSE LET name == Head(possibleNames) IN
         IF /\ name \in DOMAIN row
            /\ row[name].type # "undefined"
            /\ ~(row[name].type = "string" /\ row[name].text = <<>>)
         THEN row[name]
         ELSE getColumnValue(row, Tail(possibleNames))

TitleColumns == <<"Título da Requisição", "Titulo da Requisição", "Título", "Titulo",
                  "título", "titulo", "Title", "Nome", "Descrição do Item", "Item",
                  "Material de limpeza - CCL Cajamar">>

TotalBudgetColumns == <<"Orçamento Estimado", "Orcamento", "Budget", "Valor", "Preço", "Price">>

\* the markers of header and metadata rows
MetadataMarkers == {<<"E", "M", "P", "R", "E", "S", "A", ":">>,
                    <<"C", "O", "N", "T", "A", "T", "O", ":">>,
                    <<"T", "E", "L", "E", "F", "O", "N", "E", ":">>,
                    <<"E", "M", "A", "I", "L", ":">>,
                    <<"D", "A", "T", "A", ":">>}

MinTitleLength == 3

\* the column headers that contain 'Material de limpeza'
MaterialColumns == {"Material de limpeza - CCL Cajamar"}

\* quotationData.title: the named column or, when that is falsy, the column
\* whose header holds the title of a malformed sheet
TitleCell(row) ==
    LET named == getColumnValue(row, TitleColumns)
        keys == DOMAIN row \cap MaterialColumns
    IN  IF Truthy(named) THEN named
        ELSE IF \E key \in keys : Truthy(row[key]) /\ trim(CellToString(row[key])) # <<>>
        THEN row[CHOOSE key \in keys : TRUE]
        ELSE Undefined

\* quotationData.title?.toString().trim() || ''
ResolvedTitle(row) ==
    LET cell == TitleCell(row) IN
    IF cell.type = "undefined" THEN <<>> ELSE trim(CellToString(cell))

\* a skip test that knows no marker
isBlankTitle(title) == title = <<>> \/ Len(title) < MinTitleLength

\* the test of "Skip header/metadata rows"
isMetadataTitle(title) ==
    \/ title = <<>>
    \/ \E marker \in MetadataMarkers : includes(title, marker)
    \/ Len(title) < MinTitleLength

\* the greatest budget the upload converts
MaxBudget == Number(FALSE, <<"9", "9", "9", "9", "9", "9", "9", "9">>, <<"9", "9">>)

\* "Convert budget to proper format if provided": only a non-empty string
\* is converted; any other cell reaches the INSERT as it is
totalBudgetOf(cell) ==
    IF Truthy(cell) /\ cell.type = "string"
    THEN LET numericBudget == parseFloat(commaToDot(keepNumeric(cell.text))) IN
         IF /\ numericBudget # <<>>
            /\ LessOrEqual(numericBudget[1], MaxBudget)
            /\ IsPositive(numericBudget[1])
         THEN numericBudget
         ELSE <<>>
    ELSE IF cell.type = "number" THEN <<cell.number>>
    ELSE <<>>

\* the line an error message of the requisition upload names for row i
\* (rows are counted from 0): `Linha ${i + 2}`
RequisitionLine(i) == i + 2

\* errors.slice(0, 10)
ErrorsShown == 10

NoRows(table) == [table |-> table, created |-> 0, skipped |-> 0, errors |-> <<>>]

\* a loop inside a transaction: the row that throws rolls back the rows
\* created before it
RollbackRow(acc, row, i, actor) ==
    IF isMetadataTitle(ResolvedTitle(row))
    THEN [acc EXCEPT !.skipped = @ + 1]
    ELSE LET made == createQuotationRequestIn(acc.table,
                         [requesterId |-> actor,
                          totalBudget |-> totalBudgetOf(getColumnValue(row, TotalBudgetColumns))])
         IN  IF made.ok
             THEN [acc EXCEPT !.table = made.table, !.created = @ + 1]
             ELSE [acc EXCEPT !.table = SubSeq(@, 1, Len(@) - acc.created),
                              !.created = 0,
                              !.skipped = @ + acc.created + 1,
                              !.errors = Append(@, [line |-> RequisitionLine(i),
                                                    message |-> "Erro ao processar dados"])]

\* a loop that passes over a marked row without counting it
UncountedRow(acc, row, i, actor) ==
    IF isMetadataTitle(ResolvedTitle(row))
    THEN acc
    ELSE LET made == createQuotationRequestIn(acc.table,
                         [requesterId |-> actor,
                          totalBudget |-> totalBudgetOf(getColumnValue(row, TotalBudgetColumns))])
         IN  IF made.ok
             THEN [acc EXCEPT !.table = made.table, !.created = @ + 1]
             ELSE [acc EXCEPT !.skipped = @ + 1,
                              !.errors = Append(@, [line |-> RequisitionLine(i),
                                                    message |-> "Erro ao processar dados"])]

\* one turn of the loop of POST /api/upload/quotation-spreadsheet, on row i
RequisitionRow(acc, row, i, actor) ==
    IF isMetadataTitle(ResolvedTitle(row))
    THEN [acc EXCEPT !.skipped = @ + 1]
    ELSE LET made == createQuotationRequestIn(acc.table,
                         [requesterId |-> actor,
                          totalBudget |-> totalBudgetOf(getColumnValue(row, TotalBudgetColumns))])
         IN  IF made.ok
             THEN [acc EXCEPT !.table = made.table, !.created = @ + 1]
             ELSE [acc EXCEPT !.skipped = @ + 1,
                              !.errors = Append(@, [line |-> RequisitionLine(i),
                                                    message |-> "Erro ao processar dados"])]

\* the loop over jsonData[0 .. n-1]
RECURSIVE RequisitionRows(_, _, _, _)
RequisitionRows(table, jsonData, n, actor) ==
    IF n = 0 THEN NoRows(table)
    ELSE RequisitionRow(RequisitionRows(table, jsonData, n - 1, actor),
                        jsonData[n], n - 1, actor)

processedData(jsonData, acc) ==
    [processed |-> Len(jsonData),
     created |-> acc.created,
     skipped |-> acc.skipped,
     errors |-> SubSeq(acc.errors, 1,
                       IF Len(acc.errors) < ErrorsShown THEN Len(acc.errors) ELSE ErrorsShown)]

\* POST /api/upload/quotation-spreadsheet
UploadQuotationSpreadsheet(actor, file) ==
    LET gate == Chain(actor, requireRequester(actor)) IN
    IF gate # 0 THEN Keep(gate)
    ELSE IF file = <<>> THEN Keep(400)
    ELSE LET jsonData == file[1]
             acc == RequisitionRows(quotationRequests, jsonData, Len(jsonData), actor)
             json == processedData(jsonData, acc)
         IN  Audited([Keep(200) EXCEPT !.quotationRequests = acc.table,
                                       !.json = <<json>>],
                     500,
                     AuditLog(actor, "upload", "quotation_request", "bulk_upload",
                              [processed |-> json.processed, created |-> json.created,
                               skipped |-> json.skipped]))

SupplierColumns == <<"Fornecedor", "Supplier", "Nome do Fornecedor">>

RequestIdColumns == <<"Requisição ID", "Request ID", "ID da Requisição">>

ProductColumns == <<"Produto/Serviço", "Product", "Produto", "Serviço", "Item">>

QuantityColumns == <<"Quantidade", "Quantity", "Qtd">>

UnitPriceColumns == <<"Preço Unitário", "Unit Price", "Preco Unitario">>

TotalPriceColumns == <<"Preço Total", "Total Price", "Preco Total">>

DeliveryTimeColumns == <<"Prazo de Entrega (dias)", "Delivery Time", "Prazo Entrega">>

\* String(value || '0')
StringOrZero(cell) == IF Truthy(cell) THEN CellToString(cell) ELSE <<"0">>

\* the test of "Skip rows with metadata or empty essential data"
isMetadataRow(supplierName, quotationRequestId, productName) ==
    \/ ~Truthy(supplierName)
    \/ ~Truthy(quotationRequestId)
    \/ ~Truthy(productName)
    \/ includes(CellToString(supplierName), <<":">>)
    \/ includes(toUpperCase(CellToString(supplierName)), <<"E", "M", "P", "R", "E", "S", "A">>)
    \/ includes(toUpperCase(CellToString(supplierName)), <<"C", "O", "N", "T", "A", "T", "O">>)

\* storage.getSupplierByName(name): the id of the supplier of that exact
\* name, 0 when there is none
getSupplierByName(table, name) ==
    LET found == {id \in Ids(table) : ~table[id].deleted /\ table[id].name = name}
    IN  IF found = {} THEN 0 ELSE CHOOSE id \in found : \A other \in found : id <= other

\* storage.getSupplierQuotationByRequestAndSupplier(requestId, supplierId):
\* the id of the pair's quotation, 0 when there is none
getSupplierQuotationByRequestAndSupplier(table, quotationRequestId, supplierId) ==
    LET found == {id \in getSupplierQuotationsIn(table, quotationRequestId) :
                     table[id].supplierId = supplierId}
    IN  IF found = {} THEN 0 ELSE CHOOSE id \in found : \A other \in found : id <= other

\* the request a cell names: ids are written in decimal; 0 when no row has it
RequestNamed(cell) ==
    LET found == {id \in Ids(quotationRequests) : toString(id) = CellToString(cell)}
    IN  IF found = {} THEN 0 ELSE CHOOSE id \in found : TRUE

\* the line an error message of the supplier-quotation upload names for
\* row i: `Linha ${i + 1}`
SupplierLine(i) == i + 1

\* total_amount: decimal("total_amount", { precision: 12, scale: 2 })
TotalAmountPrecision == 12

TotalAmountScale == 2

NoQuotationRows(supplierTable, table) ==
    [suppliers |-> supplierTable, table |-> table, created |-> 0, skipped |-> 0,
     errors |-> <<>>]

\* one turn of the loop of POST /api/upload/supplier-quotations, on row i
SupplierQuotationRow(acc, row, i) ==
    LET supplierName == getColumnValue(row, SupplierColumns)
        quotationRequestId == getColumnValue(row, RequestIdColumns)
        productName == getColumnValue(row, ProductColumns)
        numericQuantity ==
            parseFloat(commaToDot(StringOrZero(getColumnValue(row, QuantityColumns))))
        numericUnitPrice ==
            parseFloat(commaToDot(StringOrZero(getColumnValue(row, UnitPriceColumns))))
        numericTotalPrice ==
            parseFloat(commaToDot(StringOrZero(getColumnValue(row, TotalPriceColumns))))
        numericDeliveryTime ==
            parseInt(StringOrZero(getColumnValue(row, DeliveryTimeColumns)))
        known == getSupplierByName(acc.suppliers, CellToString(supplierName))
        supplierTable == IF known # 0 THEN acc.suppliers
                         ELSE Append(acc.suppliers, [name |-> CellToString(supplierName),
                                                     status |-> "ativo",
                                                     deleted |-> FALSE])
        supplierId == IF known # 0 THEN known ELSE Len(supplierTable)
        requestId == RequestNamed(quotationRequestId)
        existingQuotation ==
            getSupplierQuotationByRequestAndSupplier(acc.table, requestId, supplierId)
        failed(tables, message) ==
            [tables EXCEPT !.skipped = @ + 1,
                           !.errors = Append(@, [line |-> SupplierLine(i),
                                                 message |-> message])]
        found == [acc EXCEPT !.suppliers = supplierTable]
        \* the UPDATE or INSERT fails when total_amount overflows its column,
        \* and the INSERT when delivery_time is NaN
        overflow == Overflows(numericTotalPrice[1], TotalAmountPrecision, TotalAmountScale)
        totalAmount == toDecimal(numericTotalPrice[1], TotalAmountScale)
    IN
    IF isMetadataRow(supplierName, quotationRequestId, productName)
    THEN [acc EXCEPT !.skipped = @ + 1]
    ELSE IF numericQuantity = <<>> \/ numericUnitPrice = <<>> \/ numericTotalPrice = <<>>
    THEN failed(acc, "Valores numéricos inválidos")
    ELSE IF requestId = 0
    THEN failed(found, "Requisição não encontrada")
    ELSE IF existingQuotation # 0
    THEN IF overflow THEN failed(found, "Erro")
         ELSE [found EXCEPT
                 !.table = updateSupplierQuotation(acc.table, existingQuotation,
                     [deliveryTime |->
                          IF numericDeliveryTime # <<>> /\ numericDeliveryTime[1] # 0
                          THEN numericDeliveryTime
                          ELSE acc.table[existingQuotation].deliveryTime,
                      totalAmount |-> totalAmount]),
                 !.created = @ + 1]
    ELSE LET made == createSupplierQuotationIn(acc.table, supplierTable,
                         [quotationRequestId |-> requestId,
                          supplierId |-> supplierId,
                          totalAmount |-> totalAmount,
                          deliveryTime |-> numericDeliveryTime,
                          isSelected |-> FALSE])
         IN  IF overflow \/ numericDeliveryTime = <<>> \/ ~made.ok THEN failed(found, "Erro")
             ELSE [found EXCEPT !.table = made.table, !.created = @ + 1]

\* the loop over jsonData[0 .. n-1]
RECURSIVE SupplierQuotationRows(_, _, _, _)
SupplierQuotationRows(supplierTable, table, jsonData, n) ==
    IF n = 0 THEN NoQuotationRows(supplierTable, table)
    ELSE SupplierQuotationRow(SupplierQuotationRows(supplierTable, table, jsonData, n - 1),
                              jsonData[n], n - 1)

\* POST /api/upload/supplier-quotations
UploadSupplierQuotations(actor, file) ==
    LET gate == Chain(actor, requireQuotationProcessor(actor)) IN
    IF gate # 0 THEN Keep(gate)
    ELSE IF file = <<>> THEN Keep(400)
    ELSE LET jsonData == file[1]
             acc == SupplierQuotationRows(suppliers, supplierQuotations, jsonData,
                                          Len(jsonData))
             json == processedData(jsonData, acc)
         IN  Audited([Keep(200) EXCEPT !.suppliers = acc.suppliers,
                                       !.supplierQuotations = acc.table,
                                       !.json = <<json>>],
                     500,
                     AuditLog(actor, "upload", "supplier_quotation", "bulk_upload",
                              [processed |-> json.processed, created |-> json.created,
                               skipped |-> json.skipped]))

----------------------------------------------------------------------------
(* The state machine *)

\* one account per role, a deactivated account, an account without a role,
\* and an account whose is_active column is NULL
ProvisionedUsers ==
    [id \in {"admin", "requisitante", "cotador", "aprovador", "inativo", "semperfil",
              "semestado"} |->
        CASE id = "inativo" -> [role |-> <<"admin">>, isActive |-> <<FALSE>>]
          [] id = "semestado" -> [role |-> <<"admin">>, isActive |-> <<>>]
          [] id = "semperfil" -> [role |-> <<>>, isActive |-> <<TRUE>>]
          [] OTHER -> [role |-> <<id>>, isActive |-> <<TRUE>>]]

\* the callers of the lifecycle: the administrator passes every gate
Callers == {"admin"}

\* every kind of caller: no session, a session whose account has no row,
\* each role, a deactivated account, an account without a role
AuthCallers == {NoSession, "fantasma", "admin", "requisitante", "cotador",
                "aprovador", "inativo", "semperfil"}

SupplierBodies == {[status |-> "inativo"]}

PutRequestBodies == {[status |-> "cancelado"]}

ApproveBodies == {[approvedAmount |-> <<90>>]}

RejectBodies == {[rejectionReason |-> <<"caro">>]}

QuotationBodies ==
    {[supplierId |-> 1, totalAmount |-> 100, deliveryTime |-> <<0>>, isSelected |-> TRUE],
     [supplierId |-> 1, totalAmount |-> 80, deliveryTime |-> <<2>>, isSelected |-> FALSE]}

PutQuotationBodies == {[isSelected |-> TRUE]}

Caps == [suppliers |-> MaxSuppliers, requests |-> MaxRequests,
         quotations |-> MaxQuotations, orders |-> MaxOrders, audit |-> MaxAudit]

AuthCaps == [suppliers |-> MaxSuppliers, requests |-> MaxRequests + 1,
             quotations |-> MaxQuotations, orders |-> MaxOrders, audit |-> MaxAuthAudit]

\* the callers that fill a month with requests
SeqCallers == {"admin", "requisitante"}

\* the requests already numbered in December: the sequence 1000 is MaxSeqNew away
SeqStart == 1000 - MaxSeqNew

SeqCaps == [suppliers |-> MaxSuppliers, requests |-> SeqStart + MaxSeqNew,
            quotations |-> MaxQuotations, orders |-> MaxOrders,
            audit |-> 1 + SeqStart + MaxSeqNew]

NoCall == [route |-> "none", actor |-> NoSession, id |-> 0, body |-> <<>>,
           status |-> 0, side |-> "none", json |-> <<>>]

\* a handler that runs to completion suspends nowhere
NoCalls == <<>>

\* the database as provisioned: the accounts, and one supplier registered by
\* the administrator through POST /api/suppliers
Init ==
    /\ users = ProvisionedUsers
    /\ suppliers = <<[status |-> "ativo", deleted |-> FALSE]>>
    /\ quotationRequests = <<>>
    /\ supplierQuotations = <<>>
    /\ purchaseOrders = <<>>
    /\ auditLogs = <<AuditLog("admin", "create", "supplier", 1, [status |-> "ativo"])>>
    /\ aiAnalyses = <<>>
    /\ outbox = <<>>
    /\ today = 0
    /\ res = NoCall
    /\ calls = NoCalls
    /\ mem = NoMem

\* the handler's outcome becomes the stored state and the response
RespondDb(caps, route, actor, id, body, out) ==
    /\ Len(out.suppliers) <= caps.suppliers
    /\ Len(out.quotationRequests) <= caps.requests
    /\ Len(out.supplierQuotations) <= caps.quotations
    /\ Len(out.purchaseOrders) <= caps.orders
    /\ Len(out.auditLogs) <= caps.audit
    /\ suppliers' = out.suppliers
    /\ quotationRequests' = out.quotationRequests
    /\ supplierQuotations' = out.supplierQuotations
    /\ purchaseOrders' = out.purchaseOrders
    /\ auditLogs' = out.auditLogs
    /\ aiAnalyses' = out.aiAnalyses
    /\ outbox' = out.outbox
    /\ res' = [route |-> route, actor |-> actor, id |-> id, body |-> body,
               status |-> out.status, side |-> out.side, json |-> out.json]
    /\ UNCHANGED <<users, today, calls>>

\* a handler that runs over the database leaves the in-memory storage alone
Respond(caps, route, actor, id, body, out) ==
    /\ RespondDb(caps, route, actor, id, body, out)
    /\ UNCHANGED mem

DoPostSupplier(callers, caps) ==
    \E actor \in callers, body \in SupplierBodies :
        Respond(caps, "POST /api/suppliers", actor, 0, body, PostSupplier(actor, body))

DoPutSupplier(callers, caps) ==
    \E actor \in callers, id \in 1..caps.suppliers, body \in SupplierBodies :
        Respond(caps, "PUT /api/suppliers/:id", actor, id, body,
                PutSupplier(id, actor, body))

DoDeleteSupplier(callers, caps) ==
    \E actor \in callers, id \in 1..caps.suppliers :
        Respond(caps, "DELETE /api/suppliers/:id", actor, id, <<>>,
                DeleteSupplier(id, actor))

DoPostQuotationRequest(callers, caps) ==
    \E actor \in callers, aiFails \in BOOLEAN :
        Respond(caps, "POST /api/quotation-requests", actor, 0, <<>>,
                PostQuotationRequest(actor, <<>>, aiFails))

DoPutQuotationRequest(callers, caps) ==
    \E actor \in callers, id \in 1..caps.requests, body \in PutRequestBodies :
        Respond(caps, "PUT /api/quotation-requests/:id", actor, id, body,
                PutQuotationRequest(id, actor, body))

DoApprove(callers, caps) ==
    \E actor \in callers, id \in 1..caps.requests, body \in ApproveBodies,
       emailFails \in BOOLEAN :
        Respond(caps, "POST /api/quotation-requests/:id/approve", actor, id, body,
                Approve(id, actor, body, emailFails))

DoReject(callers, caps) ==
    \E actor \in callers, id \in 1..caps.requests, body \in RejectBodies :
        Respond(caps, "POST /api/quotation-requests/:id/reject", actor, id, body,
                Reject(id, actor, body))

DoPostSupplierQuotation(callers, caps) ==
    \E actor \in callers, id \in 1..caps.requests, body \in QuotationBodies,
       emailFails \in BOOLEAN :
        Respond(caps, "POST /api/quotation-requests/:id/supplier-quotations", actor, id, body,
                PostSupplierQuotation(id, actor, body, emailFails))

DoPutSupplierQuotation(callers, caps) ==
    \E actor \in callers, id \in 1..caps.quotations, body \in PutQuotationBodies :
        Respond(caps, "PUT /api/supplier-quotations/:id", actor, id, body,
                PutSupplierQuotation(id, actor, body))

DoSelectSupplierQuotation(callers, caps) ==
    \E actor \in callers, id \in 1..caps.quotations :
        Respond(caps, "POST /api/supplier-quotations/:id/select", actor, id, <<>>,
                SelectSupplierQuotation(id, actor))

DoGeneratePurchaseOrder(callers, caps) ==
    \E actor \in callers, id \in 1..caps.requests :
        \E found \in (IF SelectedOf(id) = {} THEN {0} ELSE SelectedOf(id)) :
            Respond(caps, "POST /api/quotation-requests/:id/generate-purchase-order",
                    actor, id, <<>>, GeneratePurchaseOrder(id, actor, found))

\* a day passes, and no call is being answered
Tick ==
    /\ today < MaxDay
    /\ today' = today + 1
    /\ res' = NoCall
    /\ UNCHANGED <<users, suppliers, quotationRequests, supplierQuotations,
                   purchaseOrders, auditLogs, aiAnalyses, outbox, calls, mem>>

\* the quotation lifecycle, driven by the administrator, as days pass
Next ==
    \/ DoPostQuotationRequest(Callers, Caps)
    \/ DoPutQuotationRequest(Callers, Caps)
    \/ DoApprove(Callers, Caps)
    \/ DoReject(Callers, Caps)
    \/ DoPostSupplierQuotation(Callers, Caps)
    \/ DoPutSupplierQuotation(Callers, Caps)
    \/ DoSelectSupplierQuotation(Callers, Caps)
    \/ DoGeneratePurchaseOrder(Callers, Caps)
    \/ Tick

Spec == Init /\ [][Next]_vars

\* every mutating route, called by every kind of caller
NextAuth ==
    \/ DoPostSupplier(AuthCallers, AuthCaps)
    \/ DoPutSupplier(AuthCallers, AuthCaps)
    \/ DoDeleteSupplier(AuthCallers, AuthCaps)
    \/ DoPostQuotationRequest(AuthCallers, AuthCaps)
    \/ DoPutQuotationRequest(AuthCallers, AuthCaps)
    \/ DoApprove(AuthCallers, AuthCaps)
    \/ DoReject(AuthCallers, AuthCaps)
    \/ DoPostSupplierQuotation(AuthCallers, AuthCaps)
    \/ DoPutSupplierQuotation(AuthCallers, AuthCaps)
    \/ DoSelectSupplierQuotation(AuthCallers, AuthCaps)
    \/ DoGeneratePurchaseOrder(AuthCallers, AuthCaps)

\* a database in mid-lifecycle: the requester has created request 1 and the
\* quotation processor has registered its first quotation
InitAuth ==
    /\ users = ProvisionedUsers
    /\ suppliers = <<[status |-> "ativo", deleted |-> FALSE]>>
    /\ quotationRequests =
           <<[requestNumber |-> <<"R", "E", "Q", "-", "2", "0", "2", "6", "1", "2",
                                  "-", "0", "0", "1">>,
              requesterId |-> "requisitante", status |-> "em_cotacao",
              totalBudget |-> <<>>, approvedAmount |-> <<>>, approverId |-> <<>>,
              approvedAt |-> <<>>, notes |-> <<>>]>>
    /\ supplierQuotations =
           <<[quotationRequestId |-> 1, supplierId |-> 1, totalAmount |-> 100,
              deliveryTime |-> <<0>>, isSelected |-> FALSE]>>
    /\ purchaseOrders = <<>>
    /\ auditLogs =
           <<AuditLog("admin", "create", "supplier", 1, [status |-> "ativo"]),
             AuditLog("requisitante", "create", "quotation_request", 1,
                      [requesterId |-> "requisitante"]),
             AuditLog("cotador", "create", "supplier_quotation", 1,
                      [quotationRequestId |-> 1, supplierId |-> 1, totalAmount |-> 100,
                       deliveryTime |-> <<0>>, isSelected |-> FALSE])>>
    /\ aiAnalyses = <<[type |-> "quotation_analysis", entityType |-> "quotation_request",
                       entityId |-> 1]>>
    /\ outbox = <<[kind |-> "quotation_request", requestId |-> 1, to |-> <<1>>,
                   delivered |-> TRUE]>>
    /\ today = 0
    /\ res = NoCall
    /\ calls = NoCalls
    /\ mem = NoMem

SpecAuth == InitAuth /\ [][NextAuth]_vars

OwnershipRoute == "requireOwnershipOrRole"

ListQuotationsRoute == "GET /api/quotation-requests/:id/supplier-quotations"

AuditLogsRoute == "GET /api/audit-logs"

\* the user ids a request names as the owner of the resource
OwnerIds == {<<>>, <<"requisitante">>, <<"cotador">>}

\* the role lists the gates of rbac.ts are built with
RoleLists == {AdminRoles, ApproverRoles, QuotationProcessorRoles, RequesterRoles}

\* a request reaches the ownership-or-role gate: res.status is the status the
\* gate answers, or 0 when it hands the request on
DoOwnershipOrRole ==
    \E actor \in AuthCallers, roles \in RoleLists, params \in OwnerIds, body \in OwnerIds :
        /\ res' = [route |-> OwnershipRoute, actor |-> actor, id |-> 0,
                   body |-> [roles |-> roles, userId |-> params, requesterId |-> body],
                   status |-> requireOwnershipOrRole(roles, actor, params, body),
                   side |-> "none", json |-> <<>>]
        /\ UNCHANGED <<store, outbox, today, calls, mem>>

NextOwner == DoOwnershipOrRole

SpecOwner == InitAuth /\ [][NextOwner]_vars

\* a December in which SeqStart requests were created one after the other
InitSeq ==
    /\ users = ProvisionedUsers
    /\ suppliers = <<[status |-> "ativo", deleted |-> FALSE]>>
    /\ quotationRequests =
           [i \in 1..SeqStart |->
               [requestNumber |-> <<"R", "E", "Q", "-", "2", "0", "2", "6", "1", "2", "-">>
                                  \o padStart(toString(i), 3, "0"),
                requesterId |-> "requisitante", status |-> "rascunho",
                totalBudget |-> <<>>, approvedAmount |-> <<>>, approverId |-> <<>>,
                approvedAt |-> <<>>, notes |-> <<>>]]
    /\ supplierQuotations = <<>>
    /\ purchaseOrders = <<>>
    /\ auditLogs =
           [i \in 1..(SeqStart + 1) |->
               IF i = 1 THEN AuditLog("admin", "create", "supplier", 1, [status |-> "ativo"])
               ELSE AuditLog("requisitante", "create", "quotation_request", i - 1,
                             [requesterId |-> "requisitante"])]
    /\ aiAnalyses = <<>>
    /\ outbox = <<>>
    /\ today = 0
    /\ res = NoCall
    /\ calls = NoCalls
    /\ mem = NoMem

\* requests keep arriving as the days pass
NextSeq ==
    \/ DoPostQuotationRequest(SeqCallers, SeqCaps)
    \/ Tick

SpecSeq == InitSeq /\ [][NextSeq]_vars

\* the cells of the uploaded sheets
Papel == String(<<"P", "a", "p", "e", "l">>)

Alfa == <<"A", "l", "f", "a">>

Beta == <<"B", "e", "t", "a">>

TenBillion == NumberCell(Number(FALSE, <<"1", "0", "0", "0", "0", "0", "0", "0", "0", "0", "0">>, <<>>))

RequisitionSheetRows ==
    {[t \in {"Título", "Valor"} |-> IF t = "Título" THEN title ELSE budget] :
        title \in {Papel}, 
        budget \in {Undefined,
                    String(<<"R", "$", " ", "1", "0", "0", ",", "5", "0">>),
                    String(<<"a", "b", "c">>),
                    String(<<"0">>),
                    String(<<"1", "0", "0", "0", "0", "0", "0", "0", "0">>),
                    NumberCell(Number(TRUE, <<"5">>, <<>>)),
                    TenBillion}}
    \cup
    {[t \in {"Título", "Valor"} |-> IF t = "Título" THEN title ELSE Undefined] :
        title \in {String(<<>>),
                   String(<<"E", "M", "P", "R", "E", "S", "A", ":", " ", "X">>)}}

SupplierSheetRow(supplier, request, total, delivery) ==
    [t \in {"Fornecedor", "Requisição ID", "Produto", "Preço Total", "Prazo Entrega"} |->
        CASE t = "Fornecedor" -> supplier
          [] t = "Requisição ID" -> request
          [] t = "Produto" -> Papel
          [] t = "Preço Total" -> total
          [] t = "Prazo Entrega" -> delivery]

One == NumberCell(Number(FALSE, <<"1">>, <<>>))

SupplierSheetRows ==
    {SupplierSheetRow(String(Alfa), One, String(<<"1", "0", ",", "5">>),
                      NumberCell(Number(FALSE, <<"3">>, <<>>))),
     SupplierSheetRow(String(Beta), String(<<"1">>), String(<<"2", "0">>), Undefined),
     SupplierSheetRow(String(<<"E", "m", "p", "r", "e", "s", "a", " ", "X">>), One,
                      String(<<"2", "0">>), Undefined),
     SupplierSheetRow(String(Alfa), String(<<"9">>), String(<<"2", "0">>), Undefined),
     SupplierSheetRow(String(Alfa), One, String(<<"a", "b", "c">>), Undefined),
     SupplierSheetRow(String(Beta), One, TenBillion, Undefined),
     SupplierSheetRow(String(Beta), String(<<"9">>), String(<<"2", "0">>), Undefined),
     SupplierSheetRow(String(Alfa), One, String(<<"3", "0">>), String(<<"a", "b", "c">>))}

\* the files of at most MaxRows rows, and no file at all
RECURSIVE Sheets(_, _)
Sheets(rows, n) ==
    IF n = 0 THEN {<<>>}
    ELSE Sheets(rows, n - 1)
         \cup {Append(sheet, row) : sheet \in {x \in Sheets(rows, n - 1) : Len(x) = n - 1},
                                     row \in rows}

Files(rows) == {<<>>} \cup {<<jsonData>> : jsonData \in Sheets(rows, MaxRows)}

UploadCallers == {"admin"}

\* the audit rows of the provisioned database
UploadSeed == <<AuditLog("admin", "create", "supplier", 1, [status |-> "ativo"]),
                AuditLog("requisitante", "create", "quotation_request", 1,
                         [requesterId |-> "requisitante"])>>

UploadCaps == [suppliers |-> 1 + MaxRows, requests |-> 1 + MaxRows,
               quotations |-> MaxRows, orders |-> 0, audit |-> Len(UploadSeed) + MaxUploads]

DoUploadQuotationSpreadsheet(callers, caps) ==
    /\ Len(auditLogs) < caps.audit
    /\ \E actor \in callers, file \in Files(RequisitionSheetRows) :
        Respond(caps, "POST /api/upload/quotation-spreadsheet", actor, 0, file,
                UploadQuotationSpreadsheet(actor, file))

DoUploadSupplierQuotations(callers, caps) ==
    /\ Len(auditLogs) < caps.audit
    /\ \E actor \in callers, file \in Files(SupplierSheetRows) :
        Respond(caps, "POST /api/upload/supplier-quotations", actor, 0, file,
                UploadSupplierQuotations(actor, file))

\* the client sends the file of the upload just answered once more
DoRepeatSupplierQuotations(callers, caps) ==
    /\ res.route = "POST /api/upload/supplier-quotations"
    /\ res.status = 200
    /\ Len(auditLogs) = caps.audit
    /\ \E actor \in callers :
        Respond([caps EXCEPT !.audit = @ + 1], "POST /api/upload/supplier-quotations",
                actor, 0, res.body, UploadSupplierQuotations(actor, res.body))

\* a database with one supplier and one request, still a draft
InitUpload ==
    /\ users = ProvisionedUsers
    /\ suppliers = <<[name |-> Alfa, status |-> "ativo", deleted |-> FALSE]>>
    /\ quotationRequests =
           <<[requestNumber |-> <<"R", "E", "Q", "-", "2", "0", "2", "6", "1", "2", "-",
                                  "0", "0", "1">>,
              requesterId |-> "requisitante", status |-> "rascunho",
              totalBudget |-> <<>>, approvedAmount |-> <<>>, approverId |-> <<>>,
              approvedAt |-> <<>>, notes |-> <<>>]>>
    /\ supplierQuotations = <<>>
    /\ purchaseOrders = <<>>
    /\ auditLogs = UploadSeed
    /\ aiAnalyses = <<>>
    /\ outbox = <<>>
    /\ today = 0
    /\ res = NoCall
    /\ calls = NoCalls
    /\ mem = NoMem

NextUpload ==
    \/ DoUploadQuotationSpreadsheet(UploadCallers, UploadCaps)
    \/ DoUploadSupplierQuotations(UploadCallers, UploadCaps)
    \/ DoPostSupplierQuotation(UploadCallers, UploadCaps)
    \/ DoRepeatSupplierQuotations(UploadCallers, UploadCaps)

SpecUpload == InitUpload /\ [][NextUpload]_vars

----------------------------------------------------------------------------
(* Interleaved handlers.  The server runs one handler per HTTP request, and  *)
(* a handler yields at every await: between two storage calls of one        *)
(* handler, the storage calls of the others may run.  calls[p] is the       *)
(* handler of request p: the await it is suspended at and its locals.       *)

Processes == 1..MaxProcesses

Idle == [route |-> "none", actor |-> NoSession, id |-> 0, body |-> <<>>, pc |-> "idle",
         quotation |-> <<>>, allQuotations |-> <<>>, request |-> <<>>,
         number |-> <<>>, made |-> 0]

Done == [Idle EXCEPT !.pc = "done"]

\* the rows of a SELECT, in the order of their ids
RECURSIVE InOrder(_)
InOrder(ids) ==
    IF ids = {} THEN <<>>
    ELSE LET first == CHOOSE i \in ids : \A j \in ids : i <= j
         IN  <<first>> \o InOrder(ids \ {first})

\* a request arrives: the middleware runs, and the handler starts
Begin(p, route, actor, id, body, gate, pc) ==
    /\ calls[p].pc = "idle"
    /\ IF gate # 0
       THEN /\ calls' = [calls EXCEPT ![p] = Done]
            /\ res' = [route |-> route, actor |-> actor, id |-> id, body |-> body,
                       status |-> gate, side |-> "none", json |-> <<>>]
       ELSE /\ calls' = [calls EXCEPT ![p] = [Idle EXCEPT !.route = route, !.actor = actor,
                                                          !.id = id, !.body = body,
                                                          !.pc = pc]]
            /\ UNCHANGED res
    /\ UNCHANGED <<store, outbox, today, mem>>

\* one storage call of handler p: `out` is what it leaves stored, and `next`
\* the handler afterwards
Await(p, out, next) ==
    /\ suppliers' = out.suppliers
    /\ quotationRequests' = out.quotationRequests
    /\ supplierQuotations' = out.supplierQuotations
    /\ purchaseOrders' = out.purchaseOrders
    /\ auditLogs' = out.auditLogs
    /\ aiAnalyses' = out.aiAnalyses
    /\ outbox' = out.outbox
    /\ calls' = [calls EXCEPT ![p] = next]
    /\ UNCHANGED <<users, today, res, mem>>

\* the last step of handler p: it answers
Answer(p, out) ==
    /\ suppliers' = out.suppliers
    /\ quotationRequests' = out.quotationRequests
    /\ supplierQuotations' = out.supplierQuotations
    /\ purchaseOrders' = out.purchaseOrders
    /\ auditLogs' = out.auditLogs
    /\ aiAnalyses' = out.aiAnalyses
    /\ outbox' = out.outbox
    /\ calls' = [calls EXCEPT ![p] = Done]
    /\ res' = [route |-> calls[p].route, actor |-> calls[p].actor, id |-> calls[p].id,
               body |-> calls[p].body, status |-> out.status, side |-> out.side,
               json |-> out.json]
    /\ UNCHANGED <<users, today, mem>>

At(p, pc) == calls[p].pc = pc

Goto(p, pc) == [calls[p] EXCEPT !.pc = pc]

(* POST /api/supplier-quotations/:id/select *)

BeginSelect(p) ==
    \E actor \in Callers, id \in Ids(supplierQuotations) :
        Begin(p, "POST /api/supplier-quotations/:id/select", actor, id, <<>>,
              Chain(actor, requireQuotationProcessor(actor)), "select:get")

\* storage.getSupplierQuotation(req.params.id)
SelectGet(p) ==
    /\ At(p, "select:get")
    /\ LET quotation == getSupplierQuotation(calls[p].id) IN
       IF quotation = <<>> THEN Answer(p, Keep(404))
       ELSE Await(p, Keep(0), [Goto(p, "select:list") EXCEPT !.quotation = quotation])

\* storage.getSupplierQuotations(quotation.quotationRequestId)
SelectList(p) ==
    /\ At(p, "select:list")
    /\ Await(p, Keep(0),
             [Goto(p, "select:loop") EXCEPT
                 !.allQuotations =
                     InOrder(getSupplierQuotations(calls[p].quotation[1].quotationRequestId))])

\* one turn of the loop: storage.updateSupplierQuotation(q.id, { isSelected: false })
SelectLoop(p) ==
    /\ At(p, "select:loop")
    /\ calls[p].allQuotations # <<>>
    /\ LET q == Head(calls[p].allQuotations)
           next == [calls[p] EXCEPT !.allQuotations = Tail(@)]
       IN  IF q # calls[p].id
           THEN Await(p, [Keep(0) EXCEPT !.supplierQuotations =
                             updateSupplierQuotation(supplierQuotations, q,
                                                     [isSelected |-> FALSE])],
                      next)
           ELSE Await(p, Keep(0), next)

\* storage.updateSupplierQuotation(req.params.id, { isSelected: true })
SelectMark(p) ==
    /\ At(p, "select:loop")
    /\ calls[p].allQuotations = <<>>
    /\ Await(p, [Keep(0) EXCEPT !.supplierQuotations =
                    updateSupplierQuotation(supplierQuotations, calls[p].id,
                                            [isSelected |-> TRUE])],
             Goto(p, "select:request"))

\* storage.updateQuotationRequest(quotation.quotationRequestId, ...)
SelectRequest(p) ==
    /\ At(p, "select:request")
    /\ Await(p, [Keep(0) EXCEPT !.quotationRequests =
                    updateQuotationRequest(quotationRequests,
                        calls[p].quotation[1].quotationRequestId,
                        [status |-> "aguardando_aprovacao",
                         totalBudget |-> <<calls[p].quotation[1].totalAmount>>])],
             Goto(p, "select:audit"))

\* storage.createAuditLog(...); res.json(selectedQuotation)
SelectAudit(p) ==
    /\ At(p, "select:audit")
    /\ Answer(p, [Keep(200) EXCEPT !.auditLogs =
                     createAuditLog(auditLogs,
                         AuditLog(calls[p].actor, "select", "supplier_quotation",
                                  calls[p].id, [isSelected |-> TRUE]))])

(* POST /api/quotation-requests/:id/supplier-quotations *)

RaceQuotationBodies ==
    {[supplierId |-> 1, totalAmount |-> 80, deliveryTime |-> <<2>>, isSelected |-> FALSE]}

BeginSubmit(p) ==
    \E actor \in Callers, id \in Ids(quotationRequests), body \in RaceQuotationBodies :
        Begin(p, "POST /api/quotation-requests/:id/supplier-quotations", actor, id, body,
              Chain(actor, requireQuotationProcessor(actor)), "submit:create")

\* storage.createSupplierQuotation(validatedData)
SubmitCreate(p) ==
    /\ At(p, "submit:create")
    /\ LET body == calls[p].body
           quotation == createSupplierQuotationIn(supplierQuotations, suppliers,
                            [quotationRequestId |-> calls[p].id,
                             supplierId |-> body.supplierId,
                             totalAmount |-> body.totalAmount,
                             deliveryTime |-> body.deliveryTime,
                             isSelected |-> body.isSelected])
       IN  IF ~quotation.ok THEN Answer(p, Keep(400))
           ELSE Await(p, [Keep(0) EXCEPT !.supplierQuotations = quotation.table],
                      [Goto(p, "submit:audit") EXCEPT !.made = quotation.id])

\* storage.createAuditLog(...)
SubmitAudit(p) ==
    /\ At(p, "submit:audit")
    /\ Await(p, [Keep(0) EXCEPT !.auditLogs =
                    createAuditLog(auditLogs,
                        AuditLog(calls[p].actor, "create", "supplier_quotation",
                                 calls[p].made, calls[p].body))],
             Goto(p, "submit:getRequest"))

\* storage.getQuotationRequest(req.params.id)
SubmitGetRequest(p) ==
    /\ At(p, "submit:getRequest")
    /\ LET request == getQuotationRequest(calls[p].id) IN
       Await(p, Keep(0),
             [Goto(p, IF request # <<>> /\ request[1].status = "rascunho"
                      THEN "submit:advance" ELSE "submit:list")
                 EXCEPT !.request = request])

\* storage.updateQuotationRequest(req.params.id, { status: 'em_cotacao' })
SubmitAdvance(p) ==
    /\ At(p, "submit:advance")
    /\ Await(p, [Keep(0) EXCEPT !.quotationRequests =
                    updateQuotationRequest(quotationRequests, calls[p].id,
                                           [status |-> "em_cotacao"])],
             Goto(p, "submit:list"))

\* storage.getSupplierQuotations(req.params.id): is this the first quotation?
SubmitList(p) ==
    /\ At(p, "submit:list")
    /\ LET allQuotations == InOrder(getSupplierQuotations(calls[p].id)) IN
       IF Len(allQuotations) = 1 /\ calls[p].request # <<>>
       THEN Await(p, Keep(0), [Goto(p, "submit:notify") EXCEPT
                                  !.allQuotations = allQuotations])
       ELSE Answer(p, Keep(201))

\* storage.getSuppliers() and emailService.sendQuotationRequestNotification,
\* inside their try/catch
SubmitNotify(p) ==
    /\ At(p, "submit:notify")
    /\ \E emailFails \in BOOLEAN :
          LET sent(ok) == [Keep(201) EXCEPT
                  !.outbox = Append(outbox, [kind |-> "quotation_request",
                                             requestId |-> calls[p].id,
                                             to |-> selectedSuppliers,
                                             delivered |-> ok])]
          IN  Answer(p, TryCatch(sent(FALSE), sent(TRUE), emailFails))

(* POST /api/quotation-requests *)

BeginCreate(p) ==
    \E actor \in Callers :
        Begin(p, "POST /api/quotation-requests", actor, 0, [requesterId |-> actor],
              Chain(actor, requireRequester(actor)), "create:last")

\* createQuotationRequest: the SELECT of the latest number of the month
CreateLast(p) ==
    /\ At(p, "create:last")
    /\ Await(p, Keep(0),
             [Goto(p, "create:insert") EXCEPT
                 !.number = NextNumber(RequestNumbers, <<"R", "E", "Q">>)])

\* createQuotationRequest: the INSERT
CreateInsert(p) ==
    /\ At(p, "create:insert")
    /\ LET request == insertQuotationRequest(quotationRequests, calls[p].body,
                                             calls[p].number)
       IN  IF ~request.ok THEN Answer(p, Keep(400))
           ELSE Await(p, [Keep(0) EXCEPT !.quotationRequests = request.table],
                      [Goto(p, "create:audit") EXCEPT !.made = request.id])

\* storage.createAuditLog(...), then the analysis inside its try/catch
CreateAudit(p) ==
    /\ At(p, "create:audit")
    /\ \E aiFails \in BOOLEAN :
          LET created == [Keep(201) EXCEPT
                  !.auditLogs = createAuditLog(auditLogs,
                      AuditLog(calls[p].actor, "create", "quotation_request",
                               calls[p].made, calls[p].body))]
              analysed == [created EXCEPT
                  !.aiAnalyses = Append(aiAnalyses, [type |-> "quotation_analysis",
                                                     entityType |-> "quotation_request",
                                                     entityId |-> calls[p].made])]
          IN  Answer(p, TryCatch(created, analysed, aiFails))

(* POST /api/quotation-requests/:id/generate-purchase-order *)

BeginGenerate(p) ==
    \E actor \in Callers, id \in Ids(quotationRequests) :
        Begin(p, "POST /api/quotation-requests/:id/generate-purchase-order", actor, id, <<>>,
              Chain(actor, requireApprover(actor)), "order:getRequest")

\* storage.getQuotationRequest(req.params.id)
GenerateGetRequest(p) ==
    /\ At(p, "order:getRequest")
    /\ LET request == getQuotationRequest(calls[p].id) IN
       IF mustBeApprovedFirst(request) THEN Answer(p, Keep(400))
       ELSE Await(p, Keep(0), [Goto(p, "order:quotations") EXCEPT !.request = request])

\* storage.getSupplierQuotations(req.params.id) and quotations.find(q => q.isSelected)
GenerateFind(p) ==
    /\ At(p, "order:quotations")
    /\ IF SelectedOf(calls[p].id) = {} THEN Answer(p, Keep(400))
       ELSE \E found \in SelectedOf(calls[p].id) :
                Await(p, Keep(0), [Goto(p, "order:last") EXCEPT
                                      !.quotation = <<supplierQuotations[found]>>])

\* createPurchaseOrder: the SELECT of the latest number of the month
GenerateLast(p) ==
    /\ At(p, "order:last")
    /\ Await(p, Keep(0),
             [Goto(p, "order:insert") EXCEPT
                 !.number = NextNumber(OrderNumbers, <<"P", "O">>)])

\* createPurchaseOrder: the INSERT
GenerateInsert(p) ==
    /\ At(p, "order:insert")
    /\ LET selectedQuotation == calls[p].quotation[1]
           purchaseOrder == insertPurchaseOrder(purchaseOrders,
               [quotationRequestId |-> calls[p].id,
                supplierId |-> selectedQuotation.supplierId,
                totalAmount |-> selectedQuotation.totalAmount,
                expectedDeliveryDate |-> expectedDeliveryDate(selectedQuotation.deliveryTime),
                status |-> "pendente"],
               calls[p].number)
       IN  IF ~purchaseOrder.ok THEN Answer(p, Keep(500))
           ELSE Await(p, [Keep(0) EXCEPT !.purchaseOrders = purchaseOrder.table],
                      [Goto(p, "order:audit") EXCEPT !.made = purchaseOrder.id])

\* storage.createAuditLog(...); res.status(201).json(purchaseOrder)
GenerateAudit(p) ==
    /\ At(p, "order:audit")
    /\ Answer(p, [Keep(201) EXCEPT !.auditLogs =
                     createAuditLog(auditLogs,
                         AuditLog(calls[p].actor, "create", "purchase_order", calls[p].made,
                                  [orderNumber |-> calls[p].number,
                                   supplierId |-> calls[p].quotation[1].supplierId]))])

(* POST /api/quotation-requests/:id/reject *)

BeginReject(p) ==
    \E actor \in Callers, id \in Ids(quotationRequests), body \in RejectBodies :
        Begin(p, "POST /api/quotation-requests/:id/reject", actor, id, body,
              Chain(actor, requireApprover(actor)), "reject:update")

\* storage.updateQuotationRequest(req.params.id, { status: 'rejeitado', ... })
RejectUpdate(p) ==
    /\ At(p, "reject:update")
    /\ Await(p, [Keep(0) EXCEPT !.quotationRequests =
                    updateQuotationRequest(quotationRequests, calls[p].id,
                        [status |-> "rejeitado",
                         approverId |-> <<calls[p].actor>>,
                         notes |-> calls[p].body.rejectionReason])],
             Goto(p, "reject:audit"))

\* storage.createAuditLog(...); res.json(request)
RejectAudit(p) ==
    /\ At(p, "reject:audit")
    /\ Answer(p, [Keep(200) EXCEPT !.auditLogs =
                     createAuditLog(auditLogs,
                         AuditLog(calls[p].actor, "reject", "quotation_request", calls[p].id,
                                  [status |-> "rejeitado",
                                   rejectionReason |-> calls[p].body.rejectionReason]))])

\* a database in mid-lifecycle: request 1 is a draft without quotations,
\* request 2 is in quotation with quotations 1 and 2, and request 3 is
\* approved with quotation 3 selected
RaceRequest(n, status, budget, approver) ==
    [requestNumber |-> <<"R", "E", "Q", "-", "2", "0", "2", "6", "1", "2", "-">>
                       \o padStart(toString(n), 3, "0"),
     requesterId |-> "requisitante", status |-> status,
     totalBudget |-> budget, approvedAmount |-> budget, approverId |-> approver,
     approvedAt |-> IF approver = <<>> THEN <<>> ELSE <<0>>, notes |-> <<>>]

InitRace ==
    /\ users = ProvisionedUsers
    /\ suppliers = <<[status |-> "ativo", deleted |-> FALSE]>>
    /\ quotationRequests = <<RaceRequest(1, "rascunho", <<>>, <<>>),
                             RaceRequest(2, "em_cotacao", <<>>, <<>>),
                             RaceRequest(3, "aprovado", <<100>>, <<"aprovador">>)>>
    /\ supplierQuotations =
           <<[quotationRequestId |-> 2, supplierId |-> 1, totalAmount |-> 100,
              deliveryTime |-> <<2>>, isSelected |-> FALSE],
             [quotationRequestId |-> 2, supplierId |-> 1, totalAmount |-> 80,
              deliveryTime |-> <<2>>, isSelected |-> FALSE],
             [quotationRequestId |-> 3, supplierId |-> 1, totalAmount |-> 100,
              deliveryTime |-> <<2>>, isSelected |-> TRUE]>>
    /\ purchaseOrders = <<>>
    /\ auditLogs = <<AuditLog("admin", "create", "supplier", 1, [status |-> "ativo"])>>
    /\ aiAnalyses = <<>>
    /\ outbox = <<[kind |-> "quotation_request", requestId |-> 2, to |-> <<1>>,
                   delivered |-> TRUE],
                  [kind |-> "quotation_request", requestId |-> 3, to |-> <<1>>,
                   delivered |-> TRUE]>>
    /\ today = 0
    /\ res = NoCall
    /\ calls = [p \in Processes |-> Idle]
    /\ mem = NoMem

NextRace ==
    \E p \in Processes :
        \/ BeginSelect(p)
        \/ SelectGet(p)
        \/ SelectList(p)
        \/ SelectLoop(p)
        \/ SelectMark(p)
        \/ SelectRequest(p)
        \/ SelectAudit(p)
        \/ BeginSubmit(p)
        \/ SubmitCreate(p)
        \/ SubmitAudit(p)
        \/ SubmitGetRequest(p)
        \/ SubmitAdvance(p)
        \/ SubmitList(p)
        \/ SubmitNotify(p)
        \/ BeginCreate(p)
        \/ CreateLast(p)
        \/ CreateInsert(p)
        \/ CreateAudit(p)
        \/ BeginGenerate(p)
        \/ GenerateGetRequest(p)
        \/ GenerateFind(p)
        \/ GenerateLast(p)
        \/ GenerateInsert(p)
        \/ GenerateAudit(p)
        \/ BeginReject(p)
        \/ RejectUpdate(p)
        \/ RejectAudit(p)

SpecRace == InitRace /\ [][NextRace]_vars

\* the callers of the order numbering runs
OrderSeqCallers == {"admin", "aprovador"}

\* the callers also name a request that does not exist
OrderSeqCaps == [suppliers |-> MaxSuppliers, requests |-> MaxRequests + 1,
                 quotations |-> MaxQuotations, orders |-> SeqStart + MaxSeqNew,
                 audit |-> 5 + SeqStart + MaxSeqNew]

\* a December in which SeqStart purchase orders were generated one after the
\* other from the approved request 1, whose selected quotation is quotation 1
InitOrderSeq ==
    /\ users = ProvisionedUsers
    /\ suppliers = <<[status |-> "ativo", deleted |-> FALSE]>>
    /\ quotationRequests = <<RaceRequest(1, "aprovado", <<100>>, <<"aprovador">>)>>
    /\ supplierQuotations =
           <<[quotationRequestId |-> 1, supplierId |-> 1, totalAmount |-> 100,
              deliveryTime |-> <<2>>, isSelected |-> TRUE]>>
    /\ purchaseOrders =
           [i \in 1..SeqStart |->
               [orderNumber |-> <<"P", "O", "-", "2", "0", "2", "6", "1", "2", "-">>
                                \o padStart(toString(i), 3, "0"),
                quotationRequestId |-> 1, supplierId |-> 1, totalAmount |-> 100,
                expectedDeliveryDate |-> <<2 * MsPerDay>>, status |-> "pendente",
                createdAt |-> 0]]
    /\ auditLogs =
           [i \in 1..(5 + SeqStart) |->
               CASE i = 1 -> AuditLog("admin", "create", "supplier", 1, [status |-> "ativo"])
                 [] i = 2 -> AuditLog("requisitante", "create", "quotation_request", 1,
                                      [requesterId |-> "requisitante"])
                 [] i = 3 -> AuditLog("cotador", "create", "supplier_quotation", 1,
                                      [supplierId |-> 1])
                 [] i = 4 -> AuditLog("cotador", "select", "supplier_quotation", 1,
                                      [isSelected |-> TRUE])
                 [] i = 5 -> AuditLog("aprovador", "approve", "quotation_request", 1,
                                      [status |-> "aprovado"])
                 [] OTHER -> AuditLog("aprovador", "create", "purchase_order", i - 5,
                                      [orderNumber |->
                                           <<"P", "O", "-", "2", "0", "2", "6", "1", "2", "-">>
                                           \o padStart(toString(i - 5), 3, "0"),
                                       supplierId |-> 1])]
    /\ aiAnalyses = <<>>
    /\ outbox = <<[kind |-> "quotation_request", requestId |-> 1, to |-> <<1>>,
                   delivered |-> TRUE]>>
    /\ today = 0
    /\ res = NoCall
    /\ calls = NoCalls
    /\ mem = NoMem

\* purchase orders keep being generated as the days pass
NextOrderSeq ==
    \/ DoGeneratePurchaseOrder(OrderSeqCallers, OrderSeqCaps)
    \/ Tick

SpecOrderSeq == InitOrderSeq /\ [][NextOrderSeq]_vars

----------------------------------------------------------------------------
(* Properties *)

SelectRoute == "POST /api/supplier-quotations/:id/select"

GenerateRoute == "POST /api/quotation-requests/:id/generate-purchase-order"

\* the selected quotations of a request in a table of supplier quotations
SelectedIn(table, quotationRequestId) ==
    {q \in getSupplierQuotationsIn(table, quotationRequestId) : table[q].isSelected}

\* C1: when POST /api/supplier-quotations/:id/select completes on an existing
\* quotation q of request R, q is the one selected quotation of R, whatever
\* the flags of R's quotations were before the call
C1_SelectLeavesOnlyQ ==
    [][(/\ res'.route = SelectRoute
        /\ res'.status = 200
        /\ res'.id \in Ids(supplierQuotations))
       => SelectedIn(supplierQuotations',
                     supplierQuotations[res'.id].quotationRequestId) = {res'.id}]_vars

\* a select has completed on the second quotation of a request whose first
\* quotation had been created selected, and the first is no longer selected
C1_Witness ==
    /\ res.route = SelectRoute
    /\ res.status = 200
    /\ res.id \in Ids(supplierQuotations)
    /\ \E other \in Ids(supplierQuotations) \ {res.id} :
          /\ supplierQuotations[other].quotationRequestId
               = supplierQuotations[res.id].quotationRequestId
          /\ ~supplierQuotations[other].isSelected
          /\ \E a \in Ids(auditLogs) :
                /\ auditLogs[a].action = "create"
                /\ auditLogs[a].entityType = "supplier_quotation"
                /\ auditLogs[a].entityId = other
                /\ auditLogs[a].changes.isSelected

\* C2: generate-purchase-order answers 4xx when the request does not exist,
\* is not aprovado, or has no selected quotation, and then writes nothing:
\* no purchase order, no audit row, no other change of the stored state
C2_RefusedOrderWritesNothing ==
    [][(/\ res'.route = GenerateRoute
        /\ \/ getQuotationRequest(res'.id) = <<>>
           \/ getQuotationRequest(res'.id)[1].status # "aprovado"
           \/ SelectedOf(res'.id) = {})
       => /\ res'.status \in 400..499
          /\ purchaseOrders' = purchaseOrders
          /\ auditLogs' = auditLogs
          /\ store' = store]_vars

\* the order of a request that has a selected quotation but is not approved
\* has been refused
C2_Witness ==
    /\ res.route = GenerateRoute
    /\ res.status = 400
    /\ getQuotationRequest(res.id) # <<>>
    /\ getQuotationRequest(res.id)[1].status # "aprovado"
    /\ SelectedOf(res.id) # {}
    /\ purchaseOrders = <<>>


\* C3: a successful generate-purchase-order for request R adds one order that
\* references R, copies supplierId and totalAmount of a selected quotation of
\* R, and expects delivery deliveryTime days after its creation, for every
\* deliveryTime the quotation holds, 0 included
C3_OrderCopiesSelectedQuotation ==
    [][(res'.route = GenerateRoute /\ res'.status = 201)
       => /\ Len(purchaseOrders') = Len(purchaseOrders) + 1
          /\ LET order == purchaseOrders'[Len(purchaseOrders')] IN
             /\ order.quotationRequestId = res'.id
             /\ \E q \in SelectedOf(res'.id) :
                   /\ order.supplierId = supplierQuotations[q].supplierId
                   /\ order.totalAmount = supplierQuotations[q].totalAmount
                   /\ supplierQuotations[q].deliveryTime # <<>>
                        => order.expectedDeliveryDate
                             = <<order.createdAt
                                 + supplierQuotations[q].deliveryTime[1] * MsPerDay>>]_vars

CreateRoute == "POST /api/quotation-requests"

\* the greatest sequence among the ids lo..hi whose number matches the prefix
RECURSIVE HighestSequence(_, _, _, _)
HighestSequence(numbers, prefix, lo, hi) ==
    IF lo > hi THEN 0
    ELSE IF lo = hi
         THEN (IF like(numbers[lo], prefix)
               THEN parseInt(split(numbers[lo], "-")[3])[1] ELSE 0)
    ELSE LET mid == (lo + hi) \div 2
             a == HighestSequence(numbers, prefix, lo, mid)
             b == HighestSequence(numbers, prefix, mid + 1, hi)
         IN  IF a < b THEN b ELSE a

\* C4: every creation of a quotation request by a permitted caller stores a
\* row numbered REQ-<year-month>-NNN whose sequence is one greater than the
\* highest sequence stored in the bucket of the current year-month (1 when
\* the bucket is empty), whatever the size of the bucket
C4_NextSequence ==
    [][(res'.route = CreateRoute /\ res'.actor \in SeqCallers)
       => LET prefix == <<"R", "E", "Q", "-">> \o yearMonth
              highest == HighestSequence(RequestNumbers, prefix, 1,
                                         Len(quotationRequests))
          IN  /\ Len(quotationRequests') = Len(quotationRequests) + 1
              /\ quotationRequests'[Len(quotationRequests')].requestNumber
                   = prefix \o <<"-">> \o padStart(toString(highest + 1), 3, "0")]_vars

\* the transitions of section 4.4
AllowedTransitions ==
    {<<"rascunho", "em_cotacao">>,
     <<"em_cotacao", "aguardando_aprovacao">>,
     <<"aguardando_aprovacao", "aprovado">>,
     <<"aguardando_aprovacao", "rejeitado">>,
     <<"rascunho", "cancelado">>,
     <<"em_cotacao", "cancelado">>,
     <<"aguardando_aprovacao", "cancelado">>}

\* C5: the status of a quotation request changes only along rascunho ->
\* em_cotacao -> aguardando_aprovacao -> aprovado or rejeitado, or to
\* cancelado from a status that is not final
C5_StatusFollowsLifecycle ==
    [][\A id \in Ids(quotationRequests) :
          \/ quotationRequests'[id].status = quotationRequests[id].status
          \/ <<quotationRequests[id].status, quotationRequests'[id].status>>
                \in AllowedTransitions]_vars

RejectRoute == "POST /api/quotation-requests/:id/reject"

\* the audit log holds a row of the action for the quotation request
HasAudit(table, action, id) ==
    \E a \in Ids(table) :
        /\ table[a].action = action
        /\ table[a].entityType = "quotation_request"
        /\ table[a].entityId = id

\* C6: rejecting a request that was approved before leaves it rejeitado, and
\* the audit log then holds the approve row and the reject row of the
\* request: every row written before the reject is still in its place
C6_RejectKeepsApproveRow ==
    [][(/\ res'.route = RejectRoute
        /\ res'.status = 200
        /\ res'.id \in Ids(quotationRequests)
        /\ HasAudit(auditLogs, "approve", res'.id))
       => /\ quotationRequests'[res'.id].status = "rejeitado"
          /\ HasAudit(auditLogs', "approve", res'.id)
          /\ HasAudit(auditLogs', "reject", res'.id)
          /\ Len(auditLogs') > Len(auditLogs)
          /\ SubSeq(auditLogs', 1, Len(auditLogs)) = auditLogs]_vars

\* an approved request has just been rejected
C6_Witness ==
    /\ res.route = RejectRoute
    /\ res.status = 200
    /\ res.id \in Ids(quotationRequests)
    /\ quotationRequests[res.id].status = "rejeitado"
    /\ quotationRequests[res.id].approvedAmount # <<>>
    /\ HasAudit(auditLogs, "approve", res.id)
    /\ HasAudit(auditLogs, "reject", res.id)

\* C7: in every reachable state each quotation request has at most one
\* selected supplier quotation
C7_AtMostOneSelected ==
    \A id \in Ids(quotationRequests) : Cardinality(SelectedOf(id)) <= 1

ApproveRoute == "POST /api/quotation-requests/:id/approve"

SubmitRoute == "POST /api/quotation-requests/:id/supplier-quotations"

\* the routes behind a role gate, and the roles each one declares
RoleGated ==
    {"POST /api/suppliers", "PUT /api/suppliers/:id", "DELETE /api/suppliers/:id",
     CreateRoute, ApproveRoute, RejectRoute, SubmitRoute,
     "PUT /api/supplier-quotations/:id", SelectRoute, GenerateRoute}

RouteRoles(route) ==
    CASE route \in {"POST /api/suppliers", "PUT /api/suppliers/:id",
                    "DELETE /api/suppliers/:id"} -> AdminRoles
      [] route = CreateRoute -> RequesterRoles
      [] route \in {ApproveRoute, RejectRoute, GenerateRoute} -> ApproverRoles
      [] route \in {SubmitRoute, "PUT /api/supplier-quotations/:id", SelectRoute}
           -> QuotationProcessorRoles

\* the caller has a stored account that is active and holds one of the roles
Permitted(roles, actor) ==
    /\ actor # NoSession
    /\ actor \in DOMAIN users
    /\ users[actor].isActive = <<TRUE>>
    /\ users[actor].role # <<>>
    /\ users[actor].role[1] \in roles

\* C8: the role gate lets a call reach its handler exactly when the call
\* carries an actor id whose stored account is active and holds an allowed
\* role; otherwise the handler does not run, and the answer is 401 without
\* an actor (or without an account) and 403 for an inactive account or a
\* role that is not allowed
C8_RoleGate ==
    /\ [](\A roles \in {AdminRoles, ApproverRoles, QuotationProcessorRoles,
                         RequesterRoles},
             actor \in AuthCallers \cup DOMAIN users :
              /\ (requireRole(roles, actor) = 0) <=> Permitted(roles, actor)
              /\ actor = NoSession => requireRole(roles, actor) = 401
              /\ (actor \in DOMAIN users /\ ~Permitted(roles, actor))
                   => requireRole(roles, actor) = 403)
    /\ [][res'.route \in RoleGated
            => IF Permitted(RouteRoles(res'.route), res'.actor)
               THEN res'.status \notin {401, 403}
               ELSE /\ store' = store
                    /\ outbox' = outbox
                    /\ res'.status = IF res'.actor \in DOMAIN users THEN 403 ELSE 401]_vars

\* the gate has turned away a deactivated administrator
C8_Witness ==
    /\ res.route = ApproveRoute
    /\ res.actor = "inativo"
    /\ users[res.actor].role = <<"admin">>
    /\ res.status = 403

\* the caller has no session, or a deactivated account, or a role outside
\* the set the route declares
Unauthorised(route, actor) ==
    \/ actor = NoSession
    \/ /\ actor \in DOMAIN users
       /\ \/ users[actor].isActive # <<TRUE>>
          \/ /\ route \in RoleGated
             /\ \/ users[actor].role = <<>>
                \/ users[actor].role[1] \notin RouteRoles(route)

\* C9: a call to a mutating endpoint by a caller without a session, with a
\* deactivated account, or with a role outside the route's set changes no
\* stored data and is answered 401 or 403
C9_UnauthorisedChangesNothing ==
    [][Unauthorised(res'.route, res'.actor)
       => store' = store /\ res'.status \in {401, 403}]_vars

\* the outcome of the call when its side effect succeeds
SuccessfulRun(route, actor, id, body) ==
    CASE route = CreateRoute -> PostQuotationRequest(actor, body, FALSE)
      [] route = ApproveRoute -> Approve(id, actor, body, FALSE)
      [] route = SubmitRoute -> PostSupplierQuotation(id, actor, body, FALSE)

\* C10: when the AI analysis of create-request or the email of approve or
\* of submit-supplier-quotation fails, the handler answers its success
\* status and its primary writes (request rows, supplier-quotation rows,
\* audit rows) are those of the run in which the side effect succeeds
C10_SideEffectIsolated ==
    [][res'.side = "failed"
       => LET run == SuccessfulRun(res'.route, res'.actor, res'.id, res'.body) IN
          /\ res'.status \in {200, 201}
          /\ res'.status = run.status
          /\ quotationRequests' = run.quotationRequests
          /\ supplierQuotations' = run.supplierQuotations
          /\ auditLogs' = run.auditLogs
          /\ suppliers' = run.suppliers
          /\ purchaseOrders' = run.purchaseOrders]_vars

\* an approval whose email failed has been answered 200 and is stored
C10_Witness ==
    /\ res.route = ApproveRoute
    /\ res.side = "failed"
    /\ res.status = 200
    /\ res.id \in Ids(quotationRequests)
    /\ quotationRequests[res.id].status = "aprovado"
    /\ HasAudit(auditLogs, "approve", res.id)
    /\ ~outbox[Len(outbox)].delivered

\* the handlers of the lifecycle and the verb each one records
LifecycleVerbs ==
    [r \in {CreateRoute, SubmitRoute, SelectRoute, ApproveRoute, RejectRoute} |->
        CASE r = CreateRoute -> "create"
          [] r = SubmitRoute -> "create"
          [] r = SelectRoute -> "select"
          [] r = ApproveRoute -> "approve"
          [] r = RejectRoute -> "reject"]

\* the requests that the step creates or whose status it changes
StatusChanged ==
    {id \in Ids(quotationRequests') :
        \/ id \notin Ids(quotationRequests)
        \/ quotationRequests'[id].status # quotationRequests[id].status}

\* C11: every change of a request's status by a lifecycle handler (create,
\* first-quotation advance, select, approve, reject) comes with one audit
\* row written by the same handler that carries the caller's id, the
\* handler's verb and, as entity, that quotation request and its id
C11_StatusChangeAudited ==
    [][res'.route \in DOMAIN LifecycleVerbs
       => \A id \in StatusChanged :
             /\ Len(auditLogs') = Len(auditLogs) + 1
             /\ LET row == auditLogs'[Len(auditLogs')] IN
                /\ row.userId = res'.actor
                /\ row.action = LifecycleVerbs[res'.route]
                /\ row.entityType = "quotation_request"
                /\ row.entityId = id]_vars

\* C12: the audit log is append-only: every step keeps each row written
\* before it, in its place and with its actor, action, entity and payload
C12_AuditAppendOnly ==
    [][/\ Len(auditLogs') >= Len(auditLogs)
       /\ \A a \in Ids(auditLogs) : auditLogs'[a] = auditLogs[a]]_vars

\* the first row of the log is still there after four later operations
\* have written theirs, an approval and a rejection among them
C12_Witness ==
    /\ Len(auditLogs) = MaxAudit
    /\ auditLogs[1] = AuditLog("admin", "create", "supplier", 1, [status |-> "ativo"])
    /\ \E a, b \in Ids(auditLogs) :
          a < b /\ auditLogs[a].action = "approve" /\ auditLogs[b].action = "reject"

RequisitionUpload == "POST /api/upload/quotation-spreadsheet"

SupplierUpload == "POST /api/upload/supplier-quotations"

\* the rows of an uploaded file whose resolved title is empty or carries a
\* metadata marker
MarkedRows(jsonData) ==
    {n \in 1..Len(jsonData) :
        LET title == ResolvedTitle(jsonData[n]) IN
        \/ title = <<>>
        \/ includes(title, <<"E", "M", "P", "R", "E", "S", "A", ":">>)
        \/ includes(title, <<"C", "O", "N", "T", "A", "T", "O", ":">>)}

\* C13: in the requisition upload every row whose resolved title is empty or
\* contains a metadata marker is counted in skipped, is not counted in
\* created, and persists no quotation request: skipped covers all such rows,
\* and created, which is the number of requests persisted, only other rows
C13_MarkedRowsAreSkipped ==
    [][(res'.route = RequisitionUpload /\ res'.status = 200) =>
          LET jsonData == res'.body[1]
              marked == Cardinality(MarkedRows(jsonData))
              json == res'.json[1]
          IN  /\ json.skipped >= marked
              /\ json.created <= Len(jsonData) - marked
              /\ json.created + json.skipped = Len(jsonData)
              /\ Len(quotationRequests') - Len(quotationRequests) = json.created
              /\ (marked = Len(jsonData)) => quotationRequests' = quotationRequests]_vars

\* an upload of three rows, two of them marked (one of each kind), has
\* created one request
C13_Witness ==
    /\ res.route = RequisitionUpload
    /\ res.status = 200
    /\ Len(res.body[1]) = MaxRows
    /\ Cardinality(MarkedRows(res.body[1])) = 2
    /\ \E n \in MarkedRows(res.body[1]) : ResolvedTitle(res.body[1][n]) # <<>>
    /\ \E n \in MarkedRows(res.body[1]) : ResolvedTitle(res.body[1][n]) = <<>>
    /\ res.json[1].created = 1
    /\ res.json[1].skipped = 2
    /\ Len(quotationRequests) = 2

\* a budget cell that holds a value which is unparseable or out of range:
\* a text without a number in it, or a text or number that is not positive
\* or is above 99,999,999.99
BadBudget(cell) ==
    LET value == IF cell.type = "string"
                 THEN parseFloat(commaToDot(keepNumeric(cell.text)))
                 ELSE <<cell.number>>
    IN  /\ cell.type # "undefined"
        /\ \/ value = <<>>
           \/ ~IsPositive(value[1])
           \/ ~LessOrEqual(value[1], MaxBudget)

\* the rows with a valid title and a bad budget
BadBudgetRows(jsonData) ==
    {n \in 1..Len(jsonData) :
        /\ ~isMetadataTitle(ResolvedTitle(jsonData[n]))
        /\ BadBudget(getColumnValue(jsonData[n], TotalBudgetColumns))}

\* C14: in the requisition upload a row with a valid title and a bad budget,
\* text or number, still creates its request, with totalBudget unset: a file
\* of such rows creates one request per row, none skipped, none with a budget
C14_BadBudgetCreatesUnset ==
    [][(res'.route = RequisitionUpload /\ res'.status = 200
        /\ BadBudgetRows(res'.body[1]) = 1..Len(res'.body[1])) =>
          /\ res'.json[1].created = Len(res'.body[1])
          /\ res'.json[1].skipped = 0
          /\ Len(quotationRequests') = Len(quotationRequests) + Len(res'.body[1])
          /\ \A id \in Ids(quotationRequests') \ Ids(quotationRequests) :
                 quotationRequests'[id].totalBudget = <<>>]_vars

IsPrefix(a, b) == Len(a) <= Len(b) /\ \A i \in 1..Len(a) : a[i] = b[i]

UploadRoutes == {RequisitionUpload, SupplierUpload}

\* the rows of a requisition upload that were refused with an error entry
FailedLines(json) == {json.errors[e].line : e \in 1..Len(json.errors)}

\* C15: in both upload routes a row that is rejected or throws never aborts
\* the batch: an authorised upload of a file answers 200 with the result
\* object, every row of the file is counted as created or skipped, and what
\* the loop had committed after any of its rows is still stored at the end
C15_RowFailureNeverAborts ==
    [][(res'.route \in UploadRoutes /\ res'.body # <<>> /\ res'.status \notin {401, 403}) =>
          LET jsonData == res'.body[1] IN
          /\ res'.status = 200
          /\ res'.json # <<>>
          /\ res'.json[1].processed = Len(jsonData)
          /\ res'.json[1].created + res'.json[1].skipped = Len(jsonData)
          /\ IsPrefix(quotationRequests, quotationRequests')
          /\ IsPrefix(suppliers, suppliers')
          /\ Len(supplierQuotations) <= Len(supplierQuotations')
          /\ \A n \in 1..Len(jsonData) :
                 IF res'.route = RequisitionUpload
                 THEN LET acc == RequisitionRows(quotationRequests, jsonData, n, res'.actor)
                      IN  /\ acc.created + acc.skipped = n
                          /\ acc.created <= res'.json[1].created
                          /\ IsPrefix(acc.table, quotationRequests')
                 ELSE LET acc == SupplierQuotationRows(suppliers, supplierQuotations,
                                                       jsonData, n)
                      IN  /\ acc.created + acc.skipped = n
                          /\ acc.created <= res'.json[1].created
                          /\ IsPrefix(acc.suppliers, suppliers')
                          /\ Len(acc.table) <= Len(supplierQuotations')
                          /\ \A id \in Ids(acc.table) :
                                 /\ supplierQuotations'[id].quotationRequestId
                                        = acc.table[id].quotationRequestId
                                 /\ supplierQuotations'[id].supplierId
                                        = acc.table[id].supplierId]_vars

\* a requisition upload whose second row threw, between two rows that were
\* created and are stored
C15_Witness ==
    /\ res.route = RequisitionUpload
    /\ res.status = 200
    /\ Len(res.body[1]) = MaxRows
    /\ res.json[1].created = 2
    /\ res.json[1].skipped = 1
    /\ FailedLines(res.json[1]) = {RequisitionLine(1)}
    /\ Len(quotationRequests) = 3

\* C16: in both upload routes each row counted in skipped has an entry in
\* errors[] that names its index: the entries name as many distinct rows of
\* the file as skipped counts
C16_SkippedRowsAreReported ==
    [][(res'.route \in UploadRoutes /\ res'.status = 200) =>
          LET json == res'.json[1]
              line(n) == IF res'.route = RequisitionUpload THEN RequisitionLine(n - 1)
                         ELSE SupplierLine(n - 1)
              named == {n \in 1..Len(res'.body[1]) : line(n) \in FailedLines(json)}
          IN  Cardinality(named) = json.skipped]_vars

\* the requests for which the step recorded a supplier quotation
QuotedInStep ==
    {supplierQuotations'[q].quotationRequestId :
        q \in {q \in Ids(supplierQuotations') :
                  q \notin Ids(supplierQuotations)
                  \/ supplierQuotations'[q] # supplierQuotations[q]}}

\* C19: when POST /api/quotation-requests/:id/supplier-quotations or the
\* supplier-quotation upload records a quotation for a request in rascunho,
\* the request is em_cotacao once the handler completes, a request in any
\* other status keeps its status, and so no request that has a supplier
\* quotation is left in rascunho
C19_QuotedDraftAdvances ==
    /\ [](\A q \in Ids(supplierQuotations) :
             quotationRequests[supplierQuotations[q].quotationRequestId].status # "rascunho")
    /\ [][res'.route \in {SubmitRoute, SupplierUpload} =>
             \A id \in Ids(quotationRequests) :
                 quotationRequests'[id].status =
                     IF id \in QuotedInStep /\ quotationRequests[id].status = "rascunho"
                     THEN "em_cotacao"
                     ELSE quotationRequests[id].status]_vars

\* the handler that takes the step, when handlers interleave
Stepping(p) == calls'[p] # calls[p]

\* C17: two select handlers for two quotations of one request, interleaved
\* at their storage calls, can end with both quotations selected, because
\* no storage call of a select handler looks at the other rows: a turn of
\* the loop unselects the one row it names, and the final write selects the
\* handler's own row whatever the others hold
C17_SelectWritesOneRow ==
    [][\A p \in Processes :
          (Stepping(p) /\ calls[p].route = SelectRoute) =>
              \A q \in Ids(supplierQuotations) :
                  supplierQuotations'[q] # supplierQuotations[q] =>
                      /\ At(p, "select:loop")
                      /\ IF calls[p].allQuotations # <<>>
                         THEN /\ q = Head(calls[p].allQuotations)
                              /\ q # calls[p].id
                              /\ ~supplierQuotations'[q].isSelected
                         ELSE /\ q = calls[p].id
                              /\ supplierQuotations'[q].isSelected]_vars

\* both select handlers have answered, and quotations 1 and 2 of request 2
\* are both selected
C17_Witness ==
    /\ \A p \in Processes : At(p, "done")
    /\ \A q \in {1, 2} :
          \E a \in Ids(auditLogs) : /\ auditLogs[a].action = "select"
                                     /\ auditLogs[a].entityType = "supplier_quotation"
                                     /\ auditLogs[a].entityId = q
    /\ supplierQuotations[1].quotationRequestId = supplierQuotations[2].quotationRequestId
    /\ supplierQuotations[1].isSelected
    /\ supplierQuotations[2].isSelected

\* a handler is about to insert under a number that is stored already
Collides(p) ==
    \/ /\ At(p, "create:insert")
       /\ \E i \in Ids(quotationRequests) :
              quotationRequests[i].requestNumber = calls[p].number
    \/ /\ At(p, "order:insert")
       /\ \E i \in Ids(purchaseOrders) : purchaseOrders[i].orderNumber = calls[p].number

C20_NotifiedExactlyOnce ==
    (\A p \in Processes : calls[p].pc \in {"idle", "done"}) =>
        \A id \in Ids(quotationRequests) :
            LET sent == {m \in Ids(outbox) : outbox[m].kind = "quotation_request"
                                              /\ outbox[m].requestId = id}
            IN  /\ getSupplierQuotations(id) # {} => Cardinality(sent) = 1
                /\ getSupplierQuotations(id) = {} => sent = {}
                /\ \A m \in sent :
                       /\ Len(outbox[m].to) <= NotifyLimit
                       /\ \A k \in Ids(outbox[m].to) :
                              suppliers[outbox[m].to[k]].status = "ativo"

\* the lifecycle calls made of both storages
MemCallers == {"admin"}

MemCaps == [suppliers |-> MaxSuppliers, requests |-> MaxRequests,
            quotations |-> MaxQuotations, orders |-> MaxOrders, audit |-> MaxMemAudit]

\* the handler's outcome becomes the in-memory storage and its response
RespondMem(caps, out) ==
    /\ Len(out.quotationRequests) <= caps.requests
    /\ Len(out.supplierQuotations) <= caps.quotations
    /\ Len(out.auditLogs) <= caps.audit
    /\ mem' = out

\* the same call is answered by the handler over the database and by the
\* handler over the in-memory storage
BothPostQuotationRequest ==
    \E actor \in MemCallers, aiFails \in BOOLEAN :
        /\ RespondDb(MemCaps, CreateRoute, actor, 0, <<>>,
                     PostQuotationRequest(actor, <<>>, aiFails))
        /\ RespondMem(MemCaps, MemPostQuotationRequest(mem, actor))

BothPostSupplierQuotation ==
    \E actor \in MemCallers, id \in 1..MemCaps.requests, body \in QuotationBodies,
       emailFails \in BOOLEAN :
        /\ RespondDb(MemCaps, SubmitRoute, actor, id, body,
                     PostSupplierQuotation(id, actor, body, emailFails))
        /\ RespondMem(MemCaps, MemPostSupplierQuotation(mem, id, actor, body))

BothSelectSupplierQuotation ==
    \E actor \in MemCallers, id \in 1..MemCaps.quotations :
        /\ RespondDb(MemCaps, SelectRoute, actor, id, <<>>,
                     SelectSupplierQuotation(id, actor))
        /\ RespondMem(MemCaps, MemSelectSupplierQuotation(mem, id, actor))

BothApprove ==
    \E actor \in MemCallers, id \in 1..MemCaps.requests, body \in ApproveBodies,
       emailFails \in BOOLEAN :
        /\ RespondDb(MemCaps, ApproveRoute, actor, id, body,
                     Approve(id, actor, body, emailFails))
        /\ RespondMem(MemCaps, MemApprove(mem, id, actor, body))

BothGeneratePurchaseOrder ==
    \E actor \in MemCallers, id \in 1..MemCaps.requests :
        \E found \in (IF SelectedOf(id) = {} THEN {0} ELSE SelectedOf(id)) :
            /\ RespondDb(MemCaps, GenerateRoute, actor, id, <<>>,
                         GeneratePurchaseOrder(id, actor, found))
            /\ RespondMem(MemCaps, MemGeneratePurchaseOrder(mem, id, actor))

BothListSupplierQuotations ==
    \E actor \in MemCallers, id \in 1..MemCaps.requests :
        /\ RespondDb(MemCaps, ListQuotationsRoute, actor, id, <<>>,
                     ListSupplierQuotations(id, actor))
        /\ RespondMem(MemCaps, MemListSupplierQuotations(mem, id, actor))

BothListAuditLogs ==
    \E actor \in MemCallers :
        /\ RespondDb(MemCaps, AuditLogsRoute, actor, 0, <<>>, ListAuditLogs(actor))
        /\ RespondMem(MemCaps, MemListAuditLogs(mem, actor))

\* both storages hold the supplier's audit row, and nothing else
InitMem ==
    /\ users = ProvisionedUsers
    /\ suppliers = <<[status |-> "ativo", deleted |-> FALSE]>>
    /\ quotationRequests = <<>>
    /\ supplierQuotations = <<>>
    /\ purchaseOrders = <<>>
    /\ auditLogs = <<AuditLog("admin", "create", "supplier", 1, [status |-> "ativo"])>>
    /\ aiAnalyses = <<>>
    /\ outbox = <<>>
    /\ today = 0
    /\ res = NoCall
    /\ calls = NoCalls
    /\ mem = [NoMem EXCEPT !.auditLogs =
                 <<AuditLog("admin", "create", "supplier", 1, [status |-> "ativo"])>>]

NextMem ==
    \/ BothPostQuotationRequest
    \/ BothPostSupplierQuotation
    \/ BothSelectSupplierQuotation
    \/ BothApprove
    \/ BothGeneratePurchaseOrder
    \/ BothListSupplierQuotations
    \/ BothListAuditLogs

SpecMem == InitMem /\ [][NextMem]_vars

\* C21: every generation of a purchase order by a permitted caller from an
\* approved request with a selected quotation stores a row numbered
\* PO-<year-month>-NNN whose sequence is one greater than the highest sequence
\* stored in the bucket of the current year-month (1 when the bucket is
\* empty), so that the numbers of a bucket are distinct and increase in
\* creation order, whatever the size of the bucket
C21_NextOrderSequence ==
    [][(/\ res'.route = GenerateRoute
        /\ res'.actor \in OrderSeqCallers
        /\ res'.id \in Ids(quotationRequests)
        /\ quotationRequests[res'.id].status = "aprovado"
        /\ SelectedOf(res'.id) # {})
       => LET prefix == <<"P", "O", "-">> \o yearMonth
              highest == HighestSequence(OrderNumbers, prefix, 1, Len(purchaseOrders))
          IN  /\ Len(purchaseOrders') = Len(purchaseOrders) + 1
              /\ purchaseOrders'[Len(purchaseOrders')].orderNumber
                   = prefix \o <<"-">> \o padStart(toString(highest + 1), 3, "0")
              /\ \A i \in Ids(purchaseOrders) :
                    purchaseOrders[i].orderNumber
                        # purchaseOrders'[Len(purchaseOrders')].orderNumber]_vars

\* C23: the ownership-or-role gate hands a request on only if it carries an
\* authenticated actor, and that actor is the owner the request names or has
\* a stored role in the allowed list
C23_OwnerOrRoleOnly ==
    (res.route = OwnershipRoute /\ res.status = 0)
    => /\ res.actor # NoSession
       /\ \/ resourceUserId(res.body.userId, res.body.requesterId) = <<res.actor>>
          \/ /\ getUser(res.actor) # <<>>
             /\ getUser(res.actor)[1].role # <<>>
             /\ getUser(res.actor)[1].role[1] \in res.body.roles

\* C24: an approve or reject call of a permitted caller on an id that matches
\* no stored quotation request is answered with an error status and leaves
\* the stored state as it was, without a new audit row
C24_MissingIdIsRefused ==
    [][(/\ res'.route \in {ApproveRoute, RejectRoute}
        /\ requireApprover(res'.actor) = 0
        /\ res'.id \notin Ids(quotationRequests))
       => /\ res'.status # 200
          /\ store' = store]_vars

\* the number of fields that '-' separates in each request number of a table
NumberFormat(table) == [i \in Ids(table) |-> Len(split(table[i].requestNumber, "-"))]

\* what a client of the routes can see of a storage
Statuses(table) == [i \in Ids(table) |-> table[i].status]

\* C25: after the same lifecycle calls, the database storage and the
\* in-memory storage have answered the last call with the same status and
\* the same list, and hold requests of the same statuses and the same number
\* format
C25_SameObservableResults ==
    /\ res.status = mem.status
    /\ res.json = mem.json
    /\ Statuses(quotationRequests) = Statuses(mem.quotationRequests)
    /\ NumberFormat(quotationRequests) = NumberFormat(mem.quotationRequests)

\* C26: whatever reject or select handlers run between the storage calls of
\* a generate-purchase-order handler, a purchase order is inserted only
\* while its request is approved and a selected quotation of the request
\* has the supplier and the amount the order copies
C26_OrderInsertedWhileApproved ==
    [][Len(purchaseOrders') > Len(purchaseOrders)
       => LET order == purchaseOrders'[Len(purchaseOrders')]
              request == order.quotationRequestId
          IN  /\ quotationRequests[request].status = "aprovado"
              /\ \E q \in SelectedOf(request) :
                    /\ supplierQuotations[q].supplierId = order.supplierId
                    /\ supplierQuotations[q].totalAmount = order.totalAmount]_vars

\* C27: whatever select handler runs between the storage calls of a
\* submit-supplier-quotation handler, the auto-advance of the submit handler
\* does not set a request that awaits approval back to em_cotacao
C27_NeverSetBack ==
    [][\A id \in Ids(quotationRequests) :
          quotationRequests'[id].status = "em_cotacao"
          => quotationRequests[id].status # "aguardando_aprovacao"]_vars

\* C28: no quotation request has two purchase orders
C28_OneOrderPerRequest ==
    \A i, j \in Ids(purchaseOrders) :
        purchaseOrders[i].quotationRequestId = purchaseOrders[j].quotationRequestId
        => i = j

\* C29: in an answered supplier-quotation upload, a row that is counted in
\* skipped leaves the suppliers and the supplier quotations as the rows
\* before it left them
C29_SkippedRowWritesNothing ==
    [][(res'.route = SupplierUpload /\ res'.status = 200)
       => LET jsonData == res'.body[1] IN
          \A n \in 1..Len(jsonData) :
             LET before == SupplierQuotationRows(suppliers, supplierQuotations,
                                                 jsonData, n - 1)
                 after == SupplierQuotationRow(before, jsonData[n], n - 1)
             IN  after.skipped > before.skipped
                 => /\ after.suppliers = before.suppliers
                    /\ after.table = before.table]_vars

\* C30: the result of an answered upload, of either route, counts every row
\* of the file once: processed is the number of rows and equals created plus
\* skipped; and the requests that a requisition upload has stored are as many
\* as created and are all drafts
C30_EveryRowCountedOnce ==
    [][(res'.route \in UploadRoutes /\ res'.status = 200)
       => LET json == res'.json[1] IN
          /\ json.processed = Len(res'.body[1])
          /\ json.processed = json.created + json.skipped
          /\ json.created >= 0
          /\ json.skipped >= 0
          /\ res'.route = RequisitionUpload
             => /\ Len(quotationRequests') = Len(quotationRequests) + json.created
                /\ \A id \in Ids(quotationRequests') \ Ids(quotationRequests) :
                      quotationRequests'[id].status = "rascunho"]_vars

\* a requisition upload of three rows, one of them a marked row, has
\* answered processed 3, created 2, skipped 1 without errors, and the two
\* requests it stored are drafts
C30_Witness ==
    /\ res.route = RequisitionUpload
    /\ res.status = 200
    /\ Len(res.body[1]) = 3
    /\ res.json[1] = [processed |-> 3, created |-> 2, skipped |-> 1, errors |-> <<>>]
    /\ Len(quotationRequests) = 3
    /\ quotationRequests[2].status = "rascunho"
    /\ quotationRequests[3].status = "rascunho"

\* the quotations of the pair that a row of an uploaded file names
PairOf(row) ==
    LET supplierId == getSupplierByName(suppliers,
                          CellToString(getColumnValue(row, SupplierColumns)))
        requestId == RequestNamed(getColumnValue(row, RequestIdColumns))
    IN  {q \in Ids(supplierQuotations) :
            /\ supplierQuotations[q].quotationRequestId = requestId
            /\ supplierQuotations[q].supplierId = supplierId}

\* the state after the same file was uploaded twice in a row
SecondPass ==
    /\ res.route = SupplierUpload
    /\ res.status = 200
    /\ Len(auditLogs) = Len(UploadSeed) + 2
    /\ auditLogs[Len(auditLogs) - 1].entityType = "supplier_quotation"

====
